---- MODULE Spec2Model ----
(***************************************************************************)
(* waybar-system-health: the severity model, the result merge, the five    *)
(* health-check modules and the aggregator (main), as a state machine.     *)
(*                                                                         *)
(* Texts (stdout, stderr, tooltip lines, ignore patterns) are TLA+ strings *)
(* and are parsed character by character, as the Python code parses them.  *)
(* A Python exception is modelled as a result whose status is the name of  *)
(* the exception (ValueError, IndexError) instead of a Status.             *)
(***************************************************************************)
EXTENDS Integers, Sequences, FiniteSets, TLC

VARIABLES pc, faults, ignore_rules, disk_config, results, ran, merged, payload, call

vars == <<pc, faults, ignore_rules, disk_config, results, ran, merged, payload, call>>

(***************************************************************************)
(* Python str operations                                                   *)
(***************************************************************************)

\* the characters of a string, as a sequence of one-character strings
Chars(s) == [i \in 1..Len(s) |-> SubSeq(s, i, i)]

\* "".join(cs), by halves
RECURSIVE Str(_)
Str(cs) ==
    IF cs = <<>> THEN ""
    ELSE IF Len(cs) = 1 THEN cs[1]
    ELSE Str(SubSeq(cs, 1, Len(cs) \div 2)) \o Str(SubSeq(cs, Len(cs) \div 2 + 1, Len(cs)))

\* sep.join(strs), by halves
RECURSIVE Join(_, _)
Join(sep, strs) ==
    IF strs = <<>> THEN ""
    ELSE IF Len(strs) = 1 THEN strs[1]
    ELSE Join(sep, SubSeq(strs, 1, Len(strs) \div 2)) \o sep
         \o Join(sep, SubSeq(strs, Len(strs) \div 2 + 1, Len(strs)))

\* str.isspace() of one character (the whitespace the modelled texts use)
IsSpace(c) == c \in {" ", "\t", "\n", "\r"}

\* \d of one character
IsDigit(c) == c \in {"0", "1", "2", "3", "4", "5", "6", "7", "8", "9"}

LowerLetters == Chars("abcdefghijklmnopqrstuvwxyz")

UpperLetters == Chars("ABCDEFGHIJKLMNOPQRSTUVWXYZ")

\* \w of one character
IsWord(c) ==
    \/ IsDigit(c)
    \/ c = "_"
    \/ \E i \in 1..26 : c = LowerLetters[i] \/ c = UpperLetters[i]

\* str.lower() of one character
LowerChar(c) ==
    IF \E i \in 1..26 : c = UpperLetters[i]
    THEN LowerLetters[CHOOSE i \in 1..26 : c = UpperLetters[i]]
    ELSE c

\* str.lower()
Lower(s) == Str([i \in 1..Len(s) |-> LowerChar(SubSeq(s, i, i))])

\* str.strip(): drop leading and trailing whitespace
Strip(s) ==
    LET cs == Chars(s)
        keep == {i \in 1..Len(cs) : ~IsSpace(cs[i])}
    IN  IF keep = {} THEN ""
        ELSE SubSeq(s, CHOOSE i \in keep : \A j \in keep : i <= j,
                       CHOOSE i \in keep : \A j \in keep : i >= j)

\* str.rstrip(): drop trailing whitespace
RStrip(s) ==
    LET cs == Chars(s)
        keep == {i \in 1..Len(cs) : ~IsSpace(cs[i])}
    IN  IF keep = {} THEN ""
        ELSE SubSeq(s, 1, CHOOSE i \in keep : \A j \in keep : i >= j)

\* the k-th least element of a set of numbers
Kth(S, k) == CHOOSE p \in S : Cardinality({q \in S : q < p}) = k - 1

\* str.splitlines(): the lines of a text; a final line break adds no empty line
SplitLines(s) ==
    LET n == Len(s)
        breaks == {i \in 1..n : SubSeq(s, i, i) = "\n"}
        ends == breaks \cup (IF n > 0 /\ n \notin breaks THEN {n + 1} ELSE {})
    IN  [k \in 1..Cardinality(ends) |->
            SubSeq(s, IF k = 1 THEN 1 ELSE Kth(ends, k - 1) + 1, Kth(ends, k) - 1)]

\* str.split(): the whitespace-separated tokens
Split(s) ==
    LET n == Len(s)
        sp(i) == i < 1 \/ i > n \/ IsSpace(SubSeq(s, i, i))
        starts == {i \in 1..n : ~sp(i) /\ sp(i - 1)}
        ends == {i \in 1..n : ~sp(i) /\ sp(i + 1)}
    IN  [k \in 1..Cardinality(starts) |-> SubSeq(s, Kth(starts, k), Kth(ends, k))]

\* sub in s
Contains(s, sub) ==
    \E i \in 1..(Len(s) - Len(sub) + 1) : SubSeq(s, i, i + Len(sub) - 1) = sub

\* s.startswith(prefix)
StartsWith(s, prefix) ==
    Len(s) >= Len(prefix) /\ SubSeq(s, 1, Len(prefix)) = prefix

DigitValue(c) ==
    CHOOSE d \in 0..9 : Chars("0123456789")[d + 1] = c

\* int(digits) of a string of decimal digits
RECURSIVE ParseInt(_)
ParseInt(s) ==
    IF s = "" THEN 0
    ELSE 10 * ParseInt(SubSeq(s, 1, Len(s) - 1)) + DigitValue(SubSeq(s, Len(s), Len(s)))

\* seq[:n]
Take(seq, n) == SubSeq(seq, 1, IF n < Len(seq) THEN n ELSE Len(seq))

\* seq[-n:]
LastN(seq, n) == SubSeq(seq, IF Len(seq) > n THEN Len(seq) - n + 1 ELSE 1, Len(seq))

\* list(chain.from_iterable(seqs))
RECURSIVE Chain(_)
Chain(seqs) == IF seqs = <<>> THEN <<>> ELSE seqs[1] \o Chain(Tail(seqs))

(***************************************************************************)
(* base.py: Status, HealthCheckResult, is_ignored                          *)
(***************************************************************************)

Status == {"OK", "WARN", "CRITICAL"}

\* Status.X.value
StatusValue(s) ==
    CASE s = "OK" -> "ok" [] s = "WARN" -> "warn" [] s = "CRITICAL" -> "critical"

\* order.get(s, 0)
order(s) ==
    CASE s = "OK" -> 0 [] s = "WARN" -> 1 [] s = "CRITICAL" -> 2 [] OTHER -> 0

\* max(statuses, key=...): the first element of the greatest key
RECURSIVE MaxByOrder(_, _, _)
MaxByOrder(statuses, i, best) ==
    IF i > Len(statuses) THEN best
    ELSE MaxByOrder(statuses, i + 1,
                    IF order(statuses[i]) > order(best) THEN statuses[i] ELSE best)

\* as worst, with the comparison of the keys reversed (min instead of max)
worstMin(statuses) ==
    IF statuses = <<>> THEN "ValueError"
    ELSE CHOOSE s \in {statuses[i] : i \in 1..Len(statuses)} :
            \A i \in 1..Len(statuses) : order(s) <= order(statuses[i])

\* Status.worst; max() of an empty list raises ValueError
worst(statuses) ==
    IF statuses = <<>> THEN "ValueError" ELSE MaxByOrder(statuses, 2, statuses[1])

HealthCheckResult(status, tooltipLines) ==
    [status |-> status, tooltipLines |-> tooltipLines]

\* an exception leaving a check: no Result is produced
Raise(exc) == [status |-> exc, tooltipLines |-> <<>>]

Raised(r) == r.status \notin Status

\* as MergeLines, with the blank line added before the first entry too
RECURSIVE MergeLinesBlankFirst(_, _)
MergeLinesBlankFirst(named, merged_lines) ==
    IF named = <<>> THEN merged_lines
    ELSE MergeLinesBlankFirst(Tail(named),
                              Append(merged_lines, "")
                              \o <<named[1][1] \o ":">> \o named[1][2].tooltipLines)

\* the loop of merge over results.items(): named is a sequence of <<name, result>>
RECURSIVE MergeLines(_, _)
MergeLines(named, merged_lines) ==
    IF named = <<>> THEN merged_lines
    ELSE MergeLines(Tail(named),
                    (IF merged_lines # <<>> THEN Append(merged_lines, "") ELSE merged_lines)
                    \o <<named[1][1] \o ":">> \o named[1][2].tooltipLines)

\* HealthCheckResult.merge; the values of the mapping are computed before merge is
\* called, so an exception raised by one of them leaves before the merge
merge(named) ==
    IF \E i \in 1..Len(named) : Raised(named[i][2])
    THEN named[CHOOSE i \in 1..Len(named) :
                    /\ Raised(named[i][2])
                    /\ \A j \in 1..(i - 1) : ~Raised(named[j][2])][2]
    ELSE LET status == worst([i \in 1..Len(named) |-> named[i][2].status])
         IN  IF status \notin Status THEN Raise(status)
             ELSE HealthCheckResult(status, MergeLines(named, <<>>))

\* r.search(text) for a pattern without metacharacters
Search(pattern, text) == Contains(text, pattern)

\* as is_ignored, with all() in the place of any()
is_ignoredAll(patterns, text) == \A i \in 1..Len(patterns) : Search(patterns[i], text)

\* HealthCheckModule.is_ignored
is_ignored(patterns, text) == \E i \in 1..Len(patterns) : Search(patterns[i], text)

(***************************************************************************)
(* utils.py                                                                *)
(***************************************************************************)

\* ["  " + ln for ln in text.strip().splitlines()]
Indented(prefix, text) ==
    LET lns == SplitLines(Strip(text))
    IN  [i \in 1..Len(lns) |-> prefix \o lns[i]]

format_command_error(cmd_name, code, stdout, stderr) ==
    <<cmd_name \o " failed with code " \o ToString(code)>>
    \o (IF Strip(stderr) # "" THEN <<"stderr:">> \o Indented("  ", stderr) ELSE <<>>)
    \o (IF Strip(stdout) # "" THEN <<"stdout:">> \o Indented("  ", stdout) ELSE <<>>)

\* the result of run(cmd): (returncode, stdout, stderr)
Outcome(code, out, err) == [code |-> code, out |-> out, err |-> err]

\* the glyphs of the tooltip and of the bar text, by code point
Bullet == "<U+2022>"

Ellipsis == "<U+2026>"

CheckMark == "<U+2713>"

BallotX == "<U+2717>"

WarningSign == "<U+26A0>"

(***************************************************************************)
(* systemd.py                                                              *)
(***************************************************************************)

SystemdMaxTooltipUnits == 10

UserLabel(user) == IF user THEN " --user" ELSE ""

\* SystemdModule._state_result, r the outcome of systemctl [--user] is-system-running
StateResult(user, r) ==
    IF r.code = 127
    THEN HealthCheckResult("WARN", <<"systemctl missing">>)
    ELSE LET text == IF Strip(r.out) # "" THEN Strip(r.out)
                     ELSE IF Strip(r.err) # "" THEN Strip(r.err) ELSE "unknown"
             lns == SplitLines(text)
         IN  IF lns = <<>> THEN Raise("IndexError")
             ELSE LET state == Strip(lns[1])
                      status ==
                          IF state \in {"degraded", "maintenance", "failed"} THEN "CRITICAL"
                          ELSE IF state \in {"starting", "unknown"} \/ r.code > 0 THEN "WARN"
                          ELSE "OK"
                  IN  HealthCheckResult(
                          status, <<"systemd (" \o UserLabel(user) \o "): " \o state>>)

\* the loop over out.splitlines() of _failed_units_result: the unit names kept
RECURSIVE FailedUnits(_, _)
FailedUnits(lns, patterns) ==
    IF lns = <<>> THEN <<>>
    ELSE LET line == Strip(lns[1])
             rest == FailedUnits(Tail(lns), patterns)
         IN  IF line = "" THEN rest
             ELSE IF Split(line) = <<>> THEN <<"IndexError">> \o rest
             ELSE IF ~is_ignored(patterns, Split(line)[1]) THEN <<Split(line)[1]>> \o rest
             ELSE rest

\* SystemdModule._failed_units_result, r the outcome of systemctl [--user] --failed
FailedUnitsResult(user, r, patterns) ==
    IF r.code = 127
    THEN HealthCheckResult("WARN", <<"systemctl missing">>)
    ELSE IF r.code # 0
    THEN HealthCheckResult(
             "WARN",
             format_command_error("systemctl" \o UserLabel(user) \o " --failed",
                                  r.code, r.out, r.err))
    ELSE LET lns == SplitLines(r.out)
             units == FailedUnits(lns, patterns)
         IN  IF \E i \in 1..Len(lns) : Strip(lns[i]) # "" /\ Split(Strip(lns[i])) = <<>>
             THEN Raise("IndexError")
             ELSE IF units # <<>>
             THEN HealthCheckResult(
                      "CRITICAL",
                      <<"Failed units:">>
                      \o [i \in 1..Len(Take(units, SystemdMaxTooltipUnits)) |->
                             "  " \o Bullet \o " " \o units[i]]
                      \o (IF Len(units) > SystemdMaxTooltipUnits
                          THEN <<"  " \o Ellipsis \o " (+"
                                 \o ToString(Len(units) - SystemdMaxTooltipUnits)
                                 \o " more)">>
                          ELSE <<>>))
             ELSE HealthCheckResult("OK", <<"Failed units: none">>)

\* the commands SystemdModule.check runs, in order
SystemdCommands ==
    <<"systemctl is-system-running", "systemctl --user is-system-running",
      "systemctl --failed", "systemctl --user --failed">>

\* SystemdModule.check, env the outcome of each command it runs
SystemdCheck(env, patterns) ==
    [result |-> merge(<<
         <<"## System state", StateResult(FALSE, env["systemctl is-system-running"])>>,
         <<"## User state", StateResult(TRUE, env["systemctl --user is-system-running"])>>,
         <<"## Failed (system)",
           FailedUnitsResult(FALSE, env["systemctl --failed"], patterns)>>,
         <<"## Failed (user)",
           FailedUnitsResult(TRUE, env["systemctl --user --failed"], patterns)>> >>),
     ran |-> SystemdCommands]

(***************************************************************************)
(* journal.py                                                              *)
(***************************************************************************)

JournalMaxTooltipLines == 15

\* [ln for ln in seq if ln.strip()]
NonBlank(seq) == SelectSeq(seq, LAMBDA ln : Strip(ln) # "")

\* [ln for ln in seq if not self.is_ignored(ln)]
NotIgnored(seq, patterns) == SelectSeq(seq, LAMBDA ln : ~is_ignored(patterns, ln))

\* as JournalCheck, showing the first lines that survive instead of the last
JournalCheckFirstLines(env, patterns) ==
    LET r == env["journalctl"]
        note_lines == SplitLines(IF Strip(r.err) # "" THEN Strip(r.err)
                                 ELSE "cannot read journal")
        lines_all == NonBlank(SplitLines(r.out))
        lines_filtered == NotIgnored(lines_all, patterns)
        count == Len(lines_filtered)
        recent == Take(lines_filtered, JournalMaxTooltipLines)
        details ==
            <<"Journal errors (err..emerg): " \o ToString(count)>>
            \o (IF recent # <<>>
                THEN <<"", "Most recent:">>
                     \o [i \in 1..Len(recent) |-> "  " \o recent[i]]
                     \o (IF count > Len(recent)
                         THEN <<"  " \o Ellipsis \o " (+"
                                \o ToString(count - Len(recent)) \o " more)">>
                         ELSE <<>>)
                ELSE <<>>)
    IN  [result |->
            IF r.code = 127
            THEN HealthCheckResult("WARN", <<"journalctl missing">>)
            ELSE IF r.code # 0 /\ Strip(r.out) = ""
            THEN IF note_lines = <<>> THEN Raise("IndexError")
                 ELSE HealthCheckResult(
                          "WARN",
                          <<"Journal errors (err..emerg): (not readable)",
                            "  " \o note_lines[1], "",
                            "Tip: add user to systemd-journal group, then re-login.">>)
            ELSE IF count = 0
            THEN HealthCheckResult("OK", <<"No errors found in journal">>)
            ELSE HealthCheckResult("CRITICAL", details),
         ran |-> <<"journalctl">>]

\* JournalModule.check
JournalCheck(env, patterns) ==
    LET r == env["journalctl"]
        note_lines == SplitLines(IF Strip(r.err) # "" THEN Strip(r.err)
                                 ELSE "cannot read journal")
        lines_all == NonBlank(SplitLines(r.out))
        lines_filtered == NotIgnored(lines_all, patterns)
        count == Len(lines_filtered)
        recent == LastN(lines_filtered, JournalMaxTooltipLines)
        details ==
            <<"Journal errors (err..emerg): " \o ToString(count)>>
            \o (IF recent # <<>>
                THEN <<"", "Most recent:">>
                     \o [i \in 1..Len(recent) |-> "  " \o recent[i]]
                     \o (IF count > Len(recent)
                         THEN <<"  " \o Ellipsis \o " (+"
                                \o ToString(count - Len(recent)) \o " more)">>
                         ELSE <<>>)
                ELSE <<>>)
    IN  [result |->
            IF r.code = 127
            THEN HealthCheckResult("WARN", <<"journalctl missing">>)
            ELSE IF r.code # 0 /\ Strip(r.out) = ""
            THEN IF note_lines = <<>> THEN Raise("IndexError")
                 ELSE HealthCheckResult(
                          "WARN",
                          <<"Journal errors (err..emerg): (not readable)",
                            "  " \o note_lines[1], "",
                            "Tip: add user to systemd-journal group, then re-login.">>)
            ELSE IF count = 0
            THEN HealthCheckResult("OK", <<"No errors found in journal">>)
            ELSE HealthCheckResult("CRITICAL", details),
         ran |-> <<"journalctl">>]

(***************************************************************************)
(* btrfs.py                                                                *)
(***************************************************************************)

BtrfsMaxTooltipLines == 12

\* as detect_root_fstype, with a missing findmnt (exit code 127) ending the
\* detection with "unknown"
DetectRootFstypeNoFallback(env) ==
    LET r1 == env["findmnt"]
        r2 == env["stat"]
    IN  IF r1.code = 127 THEN [fstype |-> "unknown", ran |-> <<"findmnt">>]
        ELSE IF r1.code = 0 /\ Strip(r1.out) # ""
        THEN [fstype |-> Strip(r1.out), ran |-> <<"findmnt">>]
        ELSE IF r2.code = 0 /\ Strip(r2.out) # ""
        THEN [fstype |-> Strip(r2.out), ran |-> <<"findmnt", "stat">>]
        ELSE [fstype |-> "unknown", ran |-> <<"findmnt", "stat">>]

\* BtrfsModule.detect_root_fstype: the type found and the commands run to find it
detect_root_fstype(env) ==
    LET r1 == env["findmnt"]
        r2 == env["stat"]
    IN  IF r1.code = 0 /\ Strip(r1.out) # ""
        THEN [fstype |-> Strip(r1.out), ran |-> <<"findmnt">>]
        ELSE IF r2.code = 0 /\ Strip(r2.out) # ""
        THEN [fstype |-> Strip(r2.out), ran |-> <<"findmnt", "stat">>]
        ELSE [fstype |-> "unknown", ran |-> <<"findmnt", "stat">>]

\* the first place from i on that holds no white space (Len(ln) + 1 if none)
SkipSpaces(ln, i) ==
    IF i > Len(ln) THEN i
    ELSE CHOOSE j \in i..(Len(ln) + 1) :
            /\ \A h \in i..(j - 1) : IsSpace(SubSeq(ln, h, h))
            /\ (j = Len(ln) + 1 \/ ~IsSpace(SubSeq(ln, j, j)))

\* the first place from i on that holds no digit (Len(ln) + 1 if none)
SkipDigits(ln, i) ==
    IF i > Len(ln) THEN i
    ELSE CHOOSE j \in i..(Len(ln) + 1) :
            /\ \A h \in i..(j - 1) : IsDigit(SubSeq(ln, h, h))
            /\ (j = Len(ln) + 1 \/ ~IsDigit(SubSeq(ln, j, j)))

\* the first place from i on that holds white space (Len(ln) + 1 if none)
SkipNonSpaces(ln, i) ==
    IF i > Len(ln) THEN i
    ELSE CHOOSE j \in i..(Len(ln) + 1) :
            /\ \A h \in i..(j - 1) : ~IsSpace(SubSeq(ln, h, h))
            /\ (j = Len(ln) + 1 \/ IsSpace(SubSeq(ln, j, j)))

\* re.match(r"^\[.+\]\.(\S+)\s+(\d+)$", ln): the places <<p, j, k>> of a match, with
\* "]." at p, the metric in p+2..j-1, white space in j..k-1 and digits from k on.
\* \S+ is followed by \s, so the metric runs up to the next white space.
DeviceStatsMatches(ln) ==
    LET n == Len(ln)
        found(p, j, k) ==
            IF j >= p + 3 /\ k > j /\ k <= n /\ SkipDigits(ln, k) = n + 1
            THEN {<<p, j, k>>} ELSE {}
        spaces(p, j) == found(p, j, SkipSpaces(ln, j))
        metric(p) == spaces(p, SkipNonSpaces(ln, p + 2))
    IN  IF n = 0 \/ SubSeq(ln, 1, 1) # "[" THEN {}
        ELSE UNION {metric(p) :
                        p \in {p \in 3..(n - 1) :
                                  /\ SubSeq(ln, p, p + 1) = "]."
                                  /\ \A i \in 2..(p - 1) : SubSeq(ln, i, i) # "\n"}}

\* int(m.group(2)) of that match
DeviceStatsValue(ln) ==
    LET m == CHOOSE m \in DeviceStatsMatches(ln) : TRUE
    IN  ParseInt(SubSeq(ln, m[3], Len(ln)))

\* as DeviceStatsScan, without the test of the ignore rules
RECURSIVE DeviceStatsScanUnfiltered(_, _)
DeviceStatsScanUnfiltered(lns, patterns) ==
    IF lns = <<>> THEN [nonzero |-> 0, interesting |-> <<>>, parse_err |-> FALSE]
    ELSE LET ln == Strip(lns[1])
             rest == DeviceStatsScanUnfiltered(Tail(lns), patterns)
         IN  IF ln = "" THEN rest
             ELSE IF DeviceStatsMatches(ln) # {}
             THEN IF DeviceStatsValue(ln) # 0
                  THEN [rest EXCEPT !.nonzero = @ + 1, !.interesting = <<ln>> \o @]
                  ELSE rest
             ELSE [rest EXCEPT !.parse_err = TRUE,
                               !.interesting = <<"couldn't parse this line: " \o ln>> \o @]

\* the loop over out.splitlines() of device_stats: what each line adds
RECURSIVE DeviceStatsScan(_, _)
DeviceStatsScan(lns, patterns) ==
    IF lns = <<>> THEN [nonzero |-> 0, interesting |-> <<>>, parse_err |-> FALSE]
    ELSE LET ln == Strip(lns[1])
             rest == DeviceStatsScan(Tail(lns), patterns)
         IN  IF ln = "" THEN rest
             ELSE IF is_ignored(patterns, ln) THEN rest
             ELSE IF DeviceStatsMatches(ln) # {}
             THEN IF DeviceStatsValue(ln) # 0
                  THEN [rest EXCEPT !.nonzero = @ + 1, !.interesting = <<ln>> \o @]
                  ELSE rest
             ELSE [rest EXCEPT !.parse_err = TRUE,
                               !.interesting = <<"couldn't parse this line: " \o ln>> \o @]

\* BtrfsModule.device_stats, r the outcome of btrfs device stats /
device_stats(r, patterns) ==
    IF r.code = 127
    THEN HealthCheckResult("WARN", <<"btrfs-progs missing">>)
    ELSE IF r.code # 0
    THEN HealthCheckResult(
             "WARN", format_command_error("btrfs device stats", r.code, r.out, r.err))
    ELSE LET scan == DeviceStatsScan(SplitLines(r.out), patterns)
             shown == Take(scan.interesting, BtrfsMaxTooltipLines)
         IN  HealthCheckResult(
                 IF scan.nonzero > 0 THEN "CRITICAL"
                 ELSE IF scan.parse_err THEN "WARN" ELSE "OK",
                 <<"non-zero counters: " \o ToString(scan.nonzero)>>
                 \o [i \in 1..Len(shown) |-> "  " \o shown[i]]
                 \o (IF scan.nonzero = 0 THEN <<"  (none)">> ELSE <<>>))

\* re.search(r"(\w+_errors?):\s*(\d+)", ln): the places <<i, q, e, k, z>> of the
\* matches, with \w+ in i..q-1, "_error" at q, the group ending at e, ":" after
\* it, the first digit at k and the last at z
ScrubMatches(ln) ==
    LET n == Len(ln)
        c(i) == SubSeq(ln, i, i)
        starts == {q \in 2..(n - 5) : SubSeq(ln, q, q + 5) = "_error"}
        words(q) == {i \in 1..(q - 1) : \A h \in i..(q - 1) : IsWord(c(h))}
        ends(q) == {q + 5} \cup (IF q + 6 <= n /\ c(q + 6) = "s" THEN {q + 6} ELSE {})
        digits(i, q, e, k) == <<i, q, e, k, SkipDigits(ln, k) - 1>>
        at(q, e) == IF e + 1 <= n /\ c(e + 1) = ":"
                    THEN {digits(i, q, e, SkipSpaces(ln, e + 2)) : i \in words(q)}
                    ELSE {}
    IN  {m \in UNION {UNION {at(q, e) : e \in ends(q)} : q \in starts} : m[5] >= m[4]}

\* the match re.search returns: the leftmost start, then the longest \w+, then "s"
ScrubMatch(ln) ==
    LET first(ms) ==
            CHOOSE m \in ms :
                \A o \in ms :
                    \/ m[1] < o[1]
                    \/ m[1] = o[1] /\ m[2] > o[2]
                    \/ m[1] = o[1] /\ m[2] = o[2] /\ m[3] >= o[3]
    IN  first(ScrubMatches(ln))

\* as ScrubCounts, keeping the first count found for an error type
RECURSIVE ScrubCountsFirstWins(_, _)
ScrubCountsFirstWins(lns, error_counts) ==
    IF lns = <<>> THEN error_counts
    ELSE IF ScrubMatches(lns[1]) = {} THEN ScrubCountsFirstWins(Tail(lns), error_counts)
    ELSE LET m == ScrubMatch(lns[1])
             error_type == SubSeq(lns[1], m[1], m[3])
             count == ParseInt(SubSeq(lns[1], m[4], m[5]))
         IN  ScrubCountsFirstWins(
                 Tail(lns),
                 [t \in DOMAIN error_counts \cup {error_type} |->
                     IF t \in DOMAIN error_counts THEN error_counts[t] ELSE count])

\* the loop of scrub_status that fills error_counts: a later line overwrites
RECURSIVE ScrubCounts(_, _)
ScrubCounts(lns, error_counts) ==
    IF lns = <<>> THEN error_counts
    ELSE IF ScrubMatches(lns[1]) = {} THEN ScrubCounts(Tail(lns), error_counts)
    ELSE LET m == ScrubMatch(lns[1])
             error_type == SubSeq(lns[1], m[1], m[3])
             count == ParseInt(SubSeq(lns[1], m[4], m[5]))
         IN  ScrubCounts(Tail(lns),
                         [t \in DOMAIN error_counts \cup {error_type} |->
                             IF t = error_type THEN count ELSE error_counts[t]])

\* sum(error_counts.values())
RECURSIVE SumValues(_, _)
SumValues(d, keys) ==
    IF keys = {} THEN 0
    ELSE LET t == CHOOSE t \in keys : TRUE
         IN  d[t] + SumValues(d, keys \ {t})

\* ord(c) for the characters of \w, as their rank
Ord(c) ==
    CHOOSE i \in 1..63 :
        Chars("0123456789ABCDEFGHIJKLMNOPQRSTUVWXYZ_abcdefghijklmnopqrstuvwxyz")[i] = c

\* a < b for strings of \w characters
RECURSIVE StrLess(_, _)
StrLess(a, b) ==
    IF b = "" THEN FALSE
    ELSE IF a = "" THEN TRUE
    ELSE IF SubSeq(a, 1, 1) # SubSeq(b, 1, 1)
    THEN Ord(SubSeq(a, 1, 1)) < Ord(SubSeq(b, 1, 1))
    ELSE StrLess(SubSeq(a, 2, Len(a)), SubSeq(b, 2, Len(b)))

\* sorted(keys)
RECURSIVE Sorted(_)
Sorted(keys) ==
    IF keys = {} THEN <<>>
    ELSE LET least == CHOOSE t \in keys : \A u \in keys \ {t} : StrLess(t, u)
         IN  <<least>> \o Sorted(keys \ {least})

\* BtrfsModule.scrub_status, r the outcome of btrfs scrub status -R /
scrub_status(r, patterns) ==
    IF r.code = 127
    THEN HealthCheckResult("WARN", <<"btrfs-progs missing">>)
    ELSE IF r.code # 0
    THEN HealthCheckResult(
             "WARN", format_command_error("btrfs scrub status", r.code, r.out, r.err))
    ELSE LET all == NonBlank(SplitLines(r.out))
             lns == NotIgnored([i \in 1..Len(all) |-> RStrip(all[i])], patterns)
             error_counts == ScrubCounts(lns, <<>>)
             total_errors == SumValues(error_counts, DOMAIN error_counts)
             shown == SelectSeq(Sorted(DOMAIN error_counts),
                                LAMBDA t : error_counts[t] > 0)
         IN  HealthCheckResult(
                 IF total_errors > 0 THEN "CRITICAL"
                 ELSE IF DOMAIN error_counts = {} THEN "WARN" ELSE "OK",
                 IF DOMAIN error_counts # {}
                 THEN <<"scrub errors: " \o ToString(total_errors)>>
                      \o [i \in 1..Len(shown) |->
                             " - " \o shown[i] \o ": " \o ToString(error_counts[shown[i]])]
                 ELSE <<"unable to parse scrub output">>)

\* as BtrfsCheck, with the scrub sub-check made before the device-stats one
BtrfsCheckScrubFirst(env, patterns) ==
    LET fs == detect_root_fstype(env)
    IN  IF fs.fstype # "btrfs"
        THEN [result |-> HealthCheckResult(
                             "WARN",
                             <<"(root is '" \o fs.fstype
                               \o "', not btrfs. check your config)">>),
              ran |-> fs.ran]
        ELSE [result |-> merge(<<
                  <<"## Scrub", scrub_status(env["btrfs scrub status"], patterns)>>,
                  <<"## Device stats", device_stats(env["btrfs device stats"], patterns)>> >>),
              ran |-> fs.ran \o <<"btrfs scrub status", "btrfs device stats">>]

\* BtrfsModule.check
BtrfsCheck(env, patterns) ==
    LET fs == detect_root_fstype(env)
    IN  IF fs.fstype # "btrfs"
        THEN [result |-> HealthCheckResult(
                             "WARN",
                             <<"(root is '" \o fs.fstype
                               \o "', not btrfs. check your config)">>),
              ran |-> fs.ran]
        ELSE [result |-> merge(<<
                  <<"## Device stats", device_stats(env["btrfs device stats"], patterns)>>,
                  <<"## Scrub", scrub_status(env["btrfs scrub status"], patterns)>> >>),
              ran |-> fs.ran \o <<"btrfs device stats", "btrfs scrub status">>]

(***************************************************************************)
(* Python float arithmetic: IEEE 754 binary64, round to nearest, ties to   *)
(* even. A float is [neg, bits, exp]: bits are the 53 bits of the          *)
(* significand, most significant first (<<>> for zero), and the value is   *)
(* bits * 2^exp.                                                           *)
(***************************************************************************)

\* the bits of the significand of a float
MantissaBits == 53

\* 2^n
RECURSIVE Pow2(_)
Pow2(n) ==
    IF n = 0 THEN 1
    ELSE IF n % 2 = 1 THEN 2 * Pow2(n - 1)
    ELSE Pow2(n \div 2) * Pow2(n \div 2)

\* the last w bits of q, most significant first
ChunkBits(q, w) == [j \in 1..w |-> (q \div Pow2(w - j)) % 2]

\* the bits of n > 0 (n < 2^30), most significant first; <<>> for 0
IntBits(n) ==
    ChunkBits(n, CHOOSE w \in 0..30 : n < Pow2(w) /\ (w = 0 \/ n >= Pow2(w - 1)))

\* the number a sequence of bits stands for, by halves
RECURSIVE BitsInt(_)
BitsInt(bits) ==
    IF bits = <<>> THEN 0
    ELSE IF Len(bits) = 1 THEN bits[1]
    ELSE LET h == Len(bits) \div 2
         IN  BitsInt(SubSeq(bits, 1, h)) * Pow2(Len(bits) - h)
             + BitsInt(SubSeq(bits, h + 1, Len(bits)))

\* the bits of a digit of the long divisions and multiplications
ChunkWidth == 9

\* the next k * ChunkWidth bits of the binary fraction r / d (0 <= r < d < 2^22), and
\* the remainder left: long division, ChunkWidth bits at a time
RECURSIVE FracBits(_, _, _)
FracBits(r, d, k) ==
    IF k = 0 THEN [bits |-> <<>>, rem |-> r]
    ELSE LET rest == FracBits((r * Pow2(ChunkWidth)) % d, d, k - 1)
         IN  [bits |-> ChunkBits((r * Pow2(ChunkWidth)) \div d, ChunkWidth) \o rest.bits,
              rem |-> rest.rem]

\* bits without the zero bits they start with
StripZeros(bits) ==
    IF \A i \in 1..Len(bits) : bits[i] = 0 THEN <<>>
    ELSE SubSeq(bits,
                CHOOSE i \in 1..Len(bits) : bits[i] = 1 /\ \A j \in 1..(i - 1) : bits[j] = 0,
                Len(bits))

\* bits + 1: one bit longer when every bit was 1
Increment(bits) ==
    IF \A i \in 1..Len(bits) : bits[i] = 1
    THEN <<1>> \o [i \in 1..Len(bits) |-> 0]
    ELSE LET z == CHOOSE i \in 1..Len(bits) :
                      bits[i] = 0 /\ \A j \in (i + 1)..Len(bits) : bits[j] = 1
         IN  [i \in 1..Len(bits) |-> IF i < z THEN bits[i] ELSE IF i = z THEN 1 ELSE 0]

\* bits * 2^exp (at least 53 bits, the first one 1; sticky: a nonzero rest lies below
\* them) rounded to 53 bits, to nearest, ties to even
RoundFloat(neg, bits, exp, sticky) ==
    LET L == Len(bits)
        e == exp + (L - MantissaBits)
        carried(inc) ==
            IF Len(inc) > MantissaBits
            THEN [neg |-> neg, bits |-> SubSeq(inc, 1, MantissaBits), exp |-> e + 1]
            ELSE [neg |-> neg, bits |-> inc, exp |-> e]
        rounded(top) ==
            IF /\ L > MantissaBits /\ bits[MantissaBits + 1] = 1
               /\ \/ sticky
                  \/ \E i \in (MantissaBits + 2)..L : bits[i] = 1
                  \/ top[MantissaBits] = 1
            THEN carried(Increment(top))
            ELSE [neg |-> neg, bits |-> top, exp |-> e]
    IN  rounded(SubSeq(bits, 1, MantissaBits))

\* the chunks of fraction bits a quotient is computed to: enough for 53 bits after
\* up to 27 zero bits
FracChunks == 9

\* n / d for ints n and d > 0: true division, correctly rounded
FloatDiv(n, d) ==
    LET a == IF n < 0 THEN -n ELSE n
        quotient(fb) ==
            RoundFloat(n < 0, StripZeros(IntBits(a \div d) \o fb.bits),
                       -(FracChunks * ChunkWidth), fb.rem # 0)
    IN  IF a = 0 THEN [neg |-> FALSE, bits |-> <<>>, exp |-> 0]
        ELSE quotient(FracBits(a % d, d, FracChunks))

\* bits * k + carry (k <= 100), ChunkWidth bits at a time from the last bit on
RECURSIVE BitsTimes(_, _, _)
BitsTimes(bits, k, carry) ==
    IF bits = <<>> THEN IntBits(carry)
    ELSE LET w == IF Len(bits) < ChunkWidth THEN Len(bits) ELSE ChunkWidth
             digit(t) == BitsTimes(SubSeq(bits, 1, Len(bits) - w), k, t \div Pow2(w))
                         \o ChunkBits(t % Pow2(w), w)
         IN  digit(BitsInt(SubSeq(bits, Len(bits) - w + 1, Len(bits))) * k + carry)

\* x * k for a float x and an int k, 0 < k <= 100
FloatTimes(x, k) ==
    IF x.bits = <<>> THEN x
    ELSE RoundFloat(x.neg, BitsTimes(x.bits, k, 0), x.exp, FALSE)

\* x >= t for a float x and an int t >= 0
FloatGE(x, t) ==
    LET nint == Len(x.bits) + x.exp
        floor == IF nint <= 0 THEN 0
                 ELSE IF x.exp >= 0 THEN BitsInt(x.bits) * Pow2(x.exp)
                 ELSE BitsInt(SubSeq(x.bits, 1, nint))
    IN  IF x.bits = <<>> THEN 0 >= t
        ELSE IF x.neg THEN FALSE
        ELSE floor >= t

\* f"{x:.1f}": the decimal of one fractional digit nearest to x, ties to even;
\* pb are the bits of 10 * x, of which the first nint stand before the point
FormatFloat1(x) ==
    LET shown(tenths) ==
            (IF x.neg THEN "-" ELSE "")
            \o ToString(tenths \div 10) \o "." \o ToString(tenths % 10)
        rounded(pb, nint, whole) ==
            shown(IF /\ nint >= 0 /\ nint < Len(pb) /\ pb[nint + 1] = 1
                     /\ \/ \E i \in (nint + 2)..Len(pb) : i >= 1 /\ pb[i] = 1
                        \/ whole % 2 = 1
                  THEN whole + 1 ELSE whole)
        placed(pb, nint) ==
            rounded(pb, nint,
                    IF nint <= 0 THEN 0
                    ELSE IF x.exp >= 0 THEN BitsInt(pb) * Pow2(x.exp)
                    ELSE BitsInt(SubSeq(pb, 1, nint)))
        scaled(pb) == placed(pb, Len(pb) + x.exp)
    IN  scaled(BitsTimes(x.bits, 10, 0))

\* f"{n / 1024 ** 3:.1f}" for an int n >= 0: the quotient is exact in a float
FormatGiB(n) ==
    LET whole == (10 * n) \div Pow2(30)
        rest == (10 * n) % Pow2(30)
        tenths == IF rest > Pow2(29) \/ (rest = Pow2(29) /\ whole % 2 = 1)
                  THEN whole + 1 ELSE whole
    IN  ToString(tenths \div 10) \o "." \o ToString(tenths % 10)

(***************************************************************************)
(* disk.py                                                                 *)
(***************************************************************************)

\* a call that returns value / a call that raises ValueError(error)
Returns(value) == [ok |-> TRUE, value |-> value]

Raises(error) == [ok |-> FALSE, error |-> error]

\* as MountThreshold, without the test that warn does not exceed critical
MountThresholdUnordered(path, warn_percent, critical_percent) ==
    IF path = "" THEN Raises("mountpoint path must be set")
    ELSE IF ~(0 <= warn_percent /\ warn_percent <= 100)
    THEN Raises(path \o ": warn threshold must be between 0 and 100")
    ELSE IF ~(0 <= critical_percent /\ critical_percent <= 100)
    THEN Raises(path \o ": critical threshold must be between 0 and 100")
    ELSE Returns([path |-> path, warn_percent |-> warn_percent,
                  critical_percent |-> critical_percent])

\* MountThreshold(path, warn_percent, critical_percent): __post_init__ validates
MountThreshold(path, warn_percent, critical_percent) ==
    IF path = "" THEN Raises("mountpoint path must be set")
    ELSE IF ~(0 <= warn_percent /\ warn_percent <= 100)
    THEN Raises(path \o ": warn threshold must be between 0 and 100")
    ELSE IF ~(0 <= critical_percent /\ critical_percent <= 100)
    THEN Raises(path \o ": critical threshold must be between 0 and 100")
    ELSE IF warn_percent > critical_percent
    THEN Raises(path \o ": warn threshold cannot exceed critical threshold")
    ELSE Returns([path |-> path, warn_percent |-> warn_percent,
                  critical_percent |-> critical_percent])

\* the path of the disk configuration, as the messages name it
DiskConfigPath == "disk.json"

\* JSON values: null, a number, a string, an object with the keys of a mount entry
\* (a key that is missing reads as null, as entry.get gives None)
JsonNull == [t |-> "null"]

JsonNum(v) == [t |-> "num", v |-> v]

JsonStr(v) == [t |-> "str", v |-> v]

JsonEntry(path, warn, critical) ==
    [t |-> "obj", path |-> path, warn |-> warn, critical |-> critical]

\* float(v) does not raise: v is a number, or a string of digits
IsNumeric(v) ==
    \/ v.t = "num"
    \/ v.t = "str" /\ v.v # "" /\ \A i \in 1..Len(v.v) : IsDigit(SubSeq(v.v, i, i))

\* float(v)
ToFloat(v) == IF v.t = "num" THEN v.v ELSE ParseInt(v.v)

\* str(v)
ToStr(v) == IF v.t = "str" THEN v.v ELSE ToString(v.v)

\* the loop of load_mount_thresholds over enumerate(data)
RECURSIVE LoadEntries(_, _, _)
LoadEntries(data, idx, mounts) ==
    IF idx > Len(data) THEN Returns(mounts)
    ELSE LET entry == data[idx]
             where == "Disk config '" \o DiskConfigPath \o "' entry #" \o ToString(idx)
         IN  IF entry.t # "obj" THEN Raises(where \o " must be an object")
             ELSE IF entry.path.t = "null" \/ entry.warn.t = "null"
                     \/ entry.critical.t = "null"
             THEN Raises(where \o " must include 'path', 'warn', and 'critical'")
             ELSE IF ~IsNumeric(entry.warn) \/ ~IsNumeric(entry.critical)
             THEN Raises(where \o ": warn/critical must be numbers")
             ELSE LET made == MountThreshold(ToStr(entry.path), ToFloat(entry.warn),
                                             ToFloat(entry.critical))
                  IN  IF ~made.ok THEN made
                      ELSE LoadEntries(data, idx + 1, Append(mounts, made.value))

\* load_mount_thresholds, file what the configuration file holds
load_mount_thresholds(file) ==
    IF file.kind = "absent" THEN Returns(<<>>)
    ELSE IF file.kind = "invalid"
    THEN Raises("Disk config '" \o DiskConfigPath \o "' is not valid JSON: " \o file.error)
    ELSE IF file.kind # "list"
    THEN Raises("Disk config '" \o DiskConfigPath
                \o "' must be a JSON list of mount entries")
    ELSE LoadEntries(file.data, 1, <<>>)

\* the marker of a status in a detail line
Marker(status) ==
    CASE status = "OK" -> CheckMark [] status = "WARN" -> "!" [] status = "CRITICAL" -> BallotX

\* f"{x:.1f}" for a float x that is the int n >= 0
FormatInt1(n) == ToString(n) \o ".0"

\* as MountStatus, with the warn threshold tested first
MountStatusWarnFirst(used_percent, cfg) ==
    IF FloatGE(used_percent, cfg.warn_percent) THEN "WARN"
    ELSE IF FloatGE(used_percent, cfg.critical_percent) THEN "CRITICAL"
    ELSE "OK"

\* the verdict of DiskModule.check for one mountpoint
MountStatus(used_percent, cfg) ==
    IF FloatGE(used_percent, cfg.critical_percent) THEN "CRITICAL"
    ELSE IF FloatGE(used_percent, cfg.warn_percent) THEN "WARN"
    ELSE "OK"

\* the detail line of DiskModule.check for one mountpoint whose usage was read
UsageLine(used_percent, status, cfg, u) ==
    "[" \o Marker(status) \o "] " \o cfg.path \o ": " \o FormatFloat1(used_percent)
    \o "% used (" \o FormatGiB(u.free) \o "/" \o FormatGiB(u.total) \o " GiB free) (warn "
    \o FormatInt1(cfg.warn_percent) \o "%, crit " \o FormatInt1(cfg.critical_percent)
    \o "%)"

\* ((usage.total - usage.free) / usage.total) * 100
UsedPercent(u) == FloatTimes(FloatDiv(u.total - u.free, u.total), 100)

\* one pass of the loop of DiskModule.check, u the outcome of shutil.disk_usage
MountResult(cfg, u) ==
    IF u.kind = "FileNotFoundError"
    THEN [status |-> "WARN", line |-> cfg.path \o ": not found (warn)"]
    ELSE IF u.kind = "PermissionError"
    THEN [status |-> "WARN", line |-> cfg.path \o ": permission denied"]
    ELSE IF u.kind = "OSError"
    THEN [status |-> "WARN",
          line |-> cfg.path \o ": error reading usage (" \o u.error \o ")"]
    ELSE IF u.total <= 0
    THEN [status |-> "WARN", line |-> cfg.path \o ": unable to determine size"]
    ELSE LET made(used_percent, status) ==
                 [status |-> status, line |-> UsageLine(used_percent, status, cfg, u)]
             classify(used_percent) == made(used_percent, MountStatus(used_percent, cfg))
         IN  classify(UsedPercent(u))

\* the query shutil.disk_usage(path), as named in the list of queries made
DiskUsageQuery(path) == "disk_usage " \o path

\* the result of DiskModule.check from what the loop found for each mountpoint
MountsResult(mount_thresholds, per, status) ==
    [result |-> IF status \notin Status THEN Raise(status)
                ELSE HealthCheckResult(status, [i \in 1..Len(per) |-> per[i].line]),
     ran |-> [i \in 1..Len(per) |-> DiskUsageQuery(mount_thresholds[i].path)],
     mount_statuses |-> [i \in 1..Len(per) |-> per[i].status]]

\* the loop of DiskModule.check over the mountpoints, and the worst of their verdicts
MountsChecked(mount_thresholds, usage) ==
    LET worst_of(per) ==
            MountsResult(mount_thresholds, per,
                         worst([i \in 1..Len(per) |-> per[i].status]))
    IN  worst_of([i \in 1..Len(mount_thresholds) |->
                     MountResult(mount_thresholds[i], usage[mount_thresholds[i].path])])

\* as DiskCheck, without the test for an empty list of mountpoints
DiskCheckNoEmptyTest(mount_thresholds, config_error, usage) ==
    IF config_error # ""
    THEN [result |-> HealthCheckResult(
                         "WARN",
                         <<"Disk usage: invalid configuration", "  " \o config_error>>),
          ran |-> <<>>, mount_statuses |-> <<>>]
    ELSE MountsChecked(mount_thresholds, usage)

\* DiskModule.check; config_error "" stands for None; usage gives the outcome of
\* shutil.disk_usage for each path
DiskCheck(mount_thresholds, config_error, usage) ==
    IF config_error # ""
    THEN [result |-> HealthCheckResult(
                         "WARN",
                         <<"Disk usage: invalid configuration", "  " \o config_error>>),
          ran |-> <<>>, mount_statuses |-> <<>>]
    ELSE IF mount_thresholds = <<>>
    THEN [result |-> HealthCheckResult(
                         "WARN",
                         <<"Disk usage: no mountpoints configured",
                           "Configure mounts in disk.json (see README)">>),
          ran |-> <<>>, mount_statuses |-> <<>>]
    ELSE MountsChecked(mount_thresholds, usage)

(***************************************************************************)
(* smart.py                                                                *)
(***************************************************************************)

SMARTCTL_EXIT_BITS ==
    <<<<1, "WARN", "smartctl: command line did not parse">>,
      <<2, "WARN", "smartctl: failed to open device">>,
      <<4, "WARN", "smartctl: SMART command failed">>,
      <<8, "CRITICAL", "SMART overall-health self-assessment reported failure">>,
      <<16, "CRITICAL", "At least one prefailure attribute is below threshold">>,
      <<32, "CRITICAL", "At least one usage attribute is below threshold">>,
      <<64, "CRITICAL", "SMART self-test log contains errors">>,
      <<128, "WARN", "A previous selective self-test is pending completion">> >>

\* code & bit, for bit a power of two (Python ints: two's complement without end)
BitAnd(code, bit) == IF (code \div bit) % 2 = 1 THEN bit ELSE 0

\* what one line of the scan output adds to the devices: <<>> or one SmartDevice;
\* device_type <<>> stands for None
ScanLine(raw) ==
    LET device(tokens) ==
            IF tokens = <<>> THEN <<>>
            ELSE <<[path |-> tokens[1],
                    device_type |-> IF Len(tokens) >= 3 /\ tokens[2] = "-d"
                                    THEN <<tokens[3]>> ELSE <<>>]>>
        uncommented(line) ==
            IF Contains(line, "#")
            THEN Strip(SubSeq(line, 1,
                              (CHOOSE i \in 1..Len(line) :
                                  /\ SubSeq(line, i, i) = "#"
                                  /\ \A j \in 1..(i - 1) : SubSeq(line, j, j) # "#") - 1))
            ELSE line
        stripped(line) ==
            IF line = "" \/ StartsWith(line, "#") THEN <<>>
            ELSE device(Split(uncommented(line)))
    IN  stripped(Strip(raw))

\* parse_scan_output
parse_scan_output(output) ==
    LET lns == SplitLines(output)
    IN  Chain([i \in 1..Len(lns) |-> ScanLine(lns[i])])

\* as _decode_exit_bits, stopping at the first bit that is set
DecodeFirstBit(code) ==
    LET set == SelectSeq(SMARTCTL_EXIT_BITS, LAMBDA e : BitAnd(code, e[1]) # 0)
    IN  IF set = <<>> THEN <<>> ELSE <<<<set[1][2], set[1][3]>>>>

\* SmartModule._decode_exit_bits
_decode_exit_bits(code) ==
    LET set == SelectSeq(SMARTCTL_EXIT_BITS, LAMBDA e : BitAnd(code, e[1]) # 0)
    IN  [i \in 1..Len(set) |-> <<set[i][2], set[i][3]>>]

\* whether a stripped line of smartctl's output is the health line
IsHealthLine(line) ==
    LET found(line_lower) ==
            /\ Contains(line_lower, "smart")
            /\ \/ Contains(line_lower, "health")
               \/ Contains(line_lower, "overall")
               \/ Contains(line_lower, "self-assessment")
    IN  line # "" /\ found(Lower(line))

\* SmartModule._extract_health_line; "" stands for None (a line found is not empty)
_extract_health_line(text) ==
    LET first(hits) == IF hits = <<>> THEN "" ELSE hits[1]
        stripped(lns) == first(SelectSeq([i \in 1..Len(lns) |-> Strip(lns[i])], IsHealthLine))
    IN  stripped(SplitLines(text))

\* the status a health line stands for
HealthStatus(health_line) ==
    LET summary == Lower(health_line)
    IN  IF \E keyword \in {"fail", "fault", "corrupt"} : Contains(summary, keyword)
        THEN "CRITICAL"
        ELSE IF \E keyword \in {"unknown", "n/a", "not supported"} :
                    Contains(summary, keyword)
        THEN "WARN"
        ELSE IF \E keyword \in {"pass", "ok", "good"} : Contains(summary, keyword)
        THEN "OK"
        ELSE "WARN"

\* SmartModule._status_from_exit_and_health
_status_from_exit_and_health(exit_messages, health_line) ==
    LET from_bits == [i \in 1..Len(exit_messages) |-> exit_messages[i][1]]
        statuses == IF exit_messages # <<>> THEN from_bits ELSE <<"OK">>
    IN  worst(IF health_line # "" THEN Append(statuses, HealthStatus(health_line))
              ELSE statuses)

\* SmartModule._summarize_health
_summarize_health(health_line, status) ==
    IF health_line # "" THEN health_line
    ELSE CASE status = "OK" -> "SMART status OK"
           [] status = "WARN" -> "SMART status uncertain"
           [] status = "CRITICAL" -> "SMART reports failure"

\* the prefix of the line of an exit message
MessagePrefix(status) ==
    CASE status = "OK" -> "info" [] status = "WARN" -> "warn" [] status = "CRITICAL" -> "crit"

\* SmartModule._check_device, r the outcome of sudo smartctl -a <path>: the tuple
\* (status, lines) as a record
_check_device(device, r) ==
    LET made(exit_messages, health_line, status) ==
            [status |-> status,
             lines |->
                 <<"[" \o Marker(status) \o "] " \o device.path \o ": "
                   \o _summarize_health(health_line, status)>>
                 \o [i \in 1..Len(exit_messages) |->
                        "  - (" \o MessagePrefix(exit_messages[i][1]) \o ") "
                        \o exit_messages[i][2]]
                 \o (IF r.code # 0 /\ exit_messages = <<>>
                        /\ (Strip(r.err) # "" \/ Strip(r.out) = "")
                     THEN format_command_error("sudo smartctl -a", r.code, r.out, r.err)
                     ELSE IF Strip(r.err) # "" /\ r.code = 0
                     THEN <<"  stderr:">> \o Indented("    ", r.err)
                     ELSE <<>>)]
        judged(exit_messages, health_line) ==
            made(exit_messages, health_line,
                 _status_from_exit_and_health(exit_messages, health_line))
        health(exit_messages, out_line) ==
            judged(exit_messages,
                   IF out_line # "" THEN out_line ELSE _extract_health_line(r.err))
    IN  IF r.code = 127
        THEN [status |-> "WARN",
              lines |-> <<device.path
                          \o ": smartctl command not found (unexpected during check)">>]
        ELSE health(_decode_exit_bits(r.code), _extract_health_line(r.out))

\* the command that queries one device
DeviceCommand(path) == "smartctl -a " \o path

\* SmartModule.check
SmartCheck(env, patterns) ==
    LET scan == env["smartctl --scan-open"]
        no_devices(err_lines) ==
            HealthCheckResult(
                "WARN",
                <<"SMART: no devices detected via 'smartctl --scan-open'">>
                \o (IF err_lines # <<>> /\ err_lines[1] # ""
                    THEN <<"  " \o err_lines[1]>> ELSE <<>>)
                \o <<"Make sure your sudo permissions are set per the README.md">>)
        made(devices, checked, status) ==
            [result |-> IF status \notin Status THEN Raise(status)
                        ELSE HealthCheckResult(
                                 status,
                                 Chain([i \in 1..Len(checked) |-> checked[i].lines])),
             ran |-> <<"smartctl --scan-open">>
                     \o [i \in 1..Len(devices) |-> DeviceCommand(devices[i].path)]]
        judged(devices, checked) ==
            made(devices, checked, worst([i \in 1..Len(checked) |-> checked[i].status]))
        found(devices) ==
            IF devices = <<>>
            THEN [result |-> no_devices(SplitLines(Strip(scan.err))),
                  ran |-> <<"smartctl --scan-open">>]
            ELSE judged(devices,
                        [i \in 1..Len(devices) |->
                            _check_device(devices[i], env[DeviceCommand(devices[i].path)])])
    IN  IF scan.code = 127
        THEN [result |-> HealthCheckResult(
                             "WARN",
                             <<"SMART: smartctl command not found",
                               "Install smartmontools to enable SMART health checks.">>),
              ran |-> <<"smartctl --scan-open">>]
        ELSE found(SelectSeq(parse_scan_output(scan.out),
                             LAMBDA dev : ~is_ignored(patterns, dev.path)))

(***************************************************************************)
(* utils.py: the ignore file                                               *)
(***************************************************************************)

\* dict.get(key) of a dict of pattern lists, None read as no patterns
\* (HealthCheckModule.__init__: ignore_rules or IgnoreRules(patterns=[]))
Get(d, key) == IF key \in DOMAIN d THEN d[key] ELSE <<>>

\* re.match(r"^(\w+):(.+)$", line) on a stripped line: the position of the
\* colon that ends the leading run of word characters, 0 when no match
IgnoreLineColon(line) ==
    LET stops == {i \in 1..Len(line) : ~IsWord(SubSeq(line, i, i))}
        colon == IF stops = {} THEN 0 ELSE Kth(stops, 1)
    IN  IF colon >= 2 /\ colon < Len(line) /\ SubSeq(line, colon, colon) = ":"
        THEN colon ELSE 0

\* the loop of parse_ignore_file over the lines, from line line_num on
RECURSIVE ParseIgnoreLines(_, _, _, _)
ParseIgnoreLines(raws, line_num, known_modules, rules_by_module) ==
    IF line_num > Len(raws) THEN Returns(rules_by_module)
    ELSE LET line == Strip(raws[line_num])
             colon == IgnoreLineColon(line)
             module == SubSeq(line, 1, colon - 1)
             pattern == Strip(SubSeq(line, colon + 1, Len(line)))
         IN  IF line = "" \/ StartsWith(line, "#")
             THEN ParseIgnoreLines(raws, line_num + 1, known_modules, rules_by_module)
             ELSE IF colon = 0
             THEN Raises("Line " \o ToString(line_num) \o ": Invalid format '" \o line
                         \o "'. Expected 'module:<regex>'")
             ELSE IF \A k \in 1..Len(known_modules) : known_modules[k] # module
             THEN Raises("Line " \o ToString(line_num) \o ": Unknown module '" \o module
                         \o "'. Known modules: " \o Join(", ", known_modules))
             ELSE ParseIgnoreLines(
                      raws, line_num + 1, known_modules,
                      [m \in DOMAIN rules_by_module \cup {module} |->
                          IF m = module THEN Append(Get(rules_by_module, module), pattern)
                          ELSE rules_by_module[m]])

\* parse_ignore_file(path, known_modules); file is what the path holds.
\* Patterns are literal texts (see Search), which always compile.
parse_ignore_file(file, known_modules) ==
    IF ~file.exists THEN Returns(<<>>)
    ELSE ParseIgnoreLines(SplitLines(file.text), 1, known_modules, <<>>)

(***************************************************************************)
(* waybar-system-health.py: main                                           *)
(***************************************************************************)

\* the module names parse_ignore_file is told of
KnownModules == <<"unit", "journal", "btrfs", "disk">>

\* as PayloadText, listing every module, the OK ones too
PayloadTextAll(module_results, merged_result) ==
    IF merged_result.status = "OK" THEN CheckMark
    ELSE WarningSign \o " "
         \o Join(" ", [i \in 1..Len(module_results) |->
                          module_results[i][1] \o ":"
                          \o StatusValue(module_results[i][2].status)])

\* the text shown in the bar
PayloadText(module_results, merged_result) ==
    IF merged_result.status = "OK" THEN CheckMark
    ELSE LET non_ok == SelectSeq(module_results, LAMBDA e : e[2].status # "OK")
         IN  WarningSign \o " "
             \o Join(" ", [i \in 1..Len(non_ok) |->
                              non_ok[i][1] \o ":" \o StatusValue(non_ok[i][2].status)])

\* the dict main hands to json.dumps
Payload(module_results, merged_result) ==
    [text |-> PayloadText(module_results, merged_result),
     tooltip |-> Join("\n", merged_result.tooltipLines),
     class |-> StatusValue(merged_result.status)]

\* the mapping main merges: each module's result under "# <name>"
MainKeys(module_results) ==
    [i \in 1..Len(module_results) |->
        <<"# " \o module_results[i][1], module_results[i][2]>>]

(***************************************************************************)
(* The environment: what the commands and queries of a run answer.         *)
(***************************************************************************)

\* how many answers of one run of main may differ from a healthy system's
MaxFaults == 2

\* what run returns for a command that is not installed
NotFound(cmd0) == Outcome(127, "", "Command not found: " \o cmd0)

\* what each command answers on a healthy system
Baseline(cmd) ==
    CASE cmd \in {"systemctl is-system-running", "systemctl --user is-system-running"}
           -> Outcome(0, "running\n", "")
      [] cmd \in {"systemctl --failed", "systemctl --user --failed", "journalctl"}
           -> Outcome(0, "", "")
      [] cmd \in {"findmnt", "stat"} -> Outcome(0, "btrfs\n", "")
      [] cmd = "btrfs device stats"
           -> Outcome(0, "[/dev/sda].write_io_errs    0\n[/dev/sda].read_io_errs     0\n", "")
      [] cmd = "btrfs scrub status"
           -> Outcome(0, "Status: finished\n  read_errors: 0\n  csum_errors: 0\n", "")
      [] cmd = "smartctl --scan-open"
           -> Outcome(0, "/dev/sda -d sat # /dev/sda [SAT], ATA device\n/dev/nvme0 -d nvme # /dev/nvme0, NVMe device\n", "")
      [] OTHER
           -> Outcome(0, "SMART overall-health self-assessment test result: PASSED\n", "")

\* the answers of a system with a problem: a failure found, the command
\* failing, the command not installed
Problems(cmd) ==
    CASE cmd \in {"systemctl is-system-running", "systemctl --user is-system-running"}
           -> {Outcome(1, "degraded\n", ""), NotFound("systemctl")}
      [] cmd \in {"systemctl --failed", "systemctl --user --failed"}
           -> {Outcome(0, "foo.service loaded failed failed Foo\nbar.mount loaded failed failed Bar\n", ""),
               NotFound("systemctl")}
      [] cmd = "journalctl"
           -> {Outcome(0, "kernel: I/O error, dev sda\n\nfoo.service: noise\n", ""),
               Outcome(1, "", "No journal files were opened\n"),
               NotFound("journalctl")}
      [] cmd = "findmnt" -> {Outcome(0, "ext4\n", ""), NotFound("findmnt")}
      [] cmd = "stat" -> {Outcome(1, "", "stat: cannot statx\n"), NotFound("stat")}
      [] cmd = "btrfs device stats"
           -> {Outcome(0, "[/dev/sda].write_io_errs    3\n[/dev/sdb].read_io_errs     1\n", ""),
               NotFound("btrfs")}
      [] cmd = "btrfs scrub status"
           -> {Outcome(0, "  read_errors: 0\n  csum_errors: 2\n", ""), NotFound("btrfs")}
      [] cmd = "smartctl --scan-open"
           -> {Outcome(1, "", "sudo: a password is required\n"), NotFound("sudo")}
      [] OTHER
           -> {Outcome(8, "SMART overall-health self-assessment test result: FAILED!\n", ""),
               NotFound("sudo")}

\* the entries of the longest journal an operation is called with
MaxJournalLines == 20

\* the output of journalctl with MaxJournalLines entries, every fourth of them
\* from foo.service
LongJournal ==
    Join("\n", [i \in 1..MaxJournalLines |->
                    IF i % 4 = 0 THEN "foo.service: noise " \o ToString(i)
                    ELSE "kernel: I/O error " \o ToString(i)]) \o "\n"

\* further answers, for an operation called on its own: odd exit codes, texts
\* that do not parse, exit code 127 with output
Oddities(cmd) ==
    CASE cmd \in {"systemctl is-system-running", "systemctl --user is-system-running"}
           -> {Outcome(1, "starting\n", ""), Outcome(0, "", ""),
               Outcome(-9, "", "Failed to connect to bus\n"),
               Outcome(127, "running\n", "")}
      [] cmd \in {"systemctl --failed", "systemctl --user --failed"}
           -> {Outcome(1, "", "Failed to connect to bus\n"),
               Outcome(127, "foo.service loaded failed failed Foo\n", "")}
      [] cmd = "journalctl"
           -> {Outcome(0, "foo.service: noise\n", ""), Outcome(1, "", ""),
               Outcome(0, LongJournal, ""),
               Outcome(1, "kernel: I/O error, dev sda\n", "truncated\n"),
               Outcome(127, "kernel: I/O error, dev sda\n", "")}
      [] cmd = "findmnt" -> {Outcome(1, "", ""), Outcome(0, "\n", ""), Outcome(127, "btrfs\n", "")}
      [] cmd = "stat" -> {Outcome(0, "ext2/ext3\n", ""), Outcome(127, "btrfs\n", "")}
      [] cmd = "btrfs device stats"
           -> {Outcome(0, "[/dev/sdb].read_io_errs 1\n\n [/dev/sda].flush_io_errs 0 \n", ""),
               Outcome(0, "garbage\n[/dev/sdb].read_io_errs x\n", ""),
               Outcome(0, "", ""),
               Outcome(1, "", "ERROR: not a btrfs filesystem: /\n"),
               Outcome(127, "[/dev/sda].write_io_errs    3\n", "")}
      [] cmd = "btrfs scrub status"
           -> {Outcome(0, "no stats available\n", ""),
               Outcome(0, "csum_errors: 2\ncsum_errors: 0\n", ""),
               Outcome(0, "  read_errors: 1 csum_errors: 4\n  csum_errors: 3\n  verify_errors: 0\n", ""),
               Outcome(1, "", "ERROR: not a btrfs filesystem: /\n"),
               Outcome(127, "  csum_errors: 2\n", "")}
      [] cmd = "smartctl --scan-open"
           -> {Outcome(0, "", ""), Outcome(0, "# no devices\n/dev/sdb\n", ""),
               Outcome(127, "/dev/sda -d sat # /dev/sda [SAT], ATA device\n", "")}
      [] OTHER
           -> {Outcome(4, "", "Read Device Identity failed\n"),
               Outcome(64, "SMART Health Status: OK\n", ""),
               Outcome(127, "SMART overall-health self-assessment test result: FAILED!\n", "")}

\* all the answers of a command
Outcomes(cmd) == {Baseline(cmd)} \cup Problems(cmd)

\* the answers of env that differ from a healthy system's
Deviations(env) == Cardinality({c \in DOMAIN env : env[c] # Baseline(c)})

\* the commands run, each with the answer it got
Answers(cmds, env) == [i \in 1..Len(cmds) |-> <<cmds[i], env[cmds[i]]>>]

\* a command that is not run answers nothing: env is told apart only by
\* the commands in cmds
Canonical(cmds, env) ==
    \A c \in DOMAIN env :
        (\A i \in 1..Len(cmds) : cmds[i] # c) => env[c] = Baseline(c)

\* the ignore files a run may find; the first is a healthy system's (no file)
IgnoreFiles ==
    <<[exists |-> FALSE, text |-> ""],
      [exists |-> TRUE,
       text |-> "# quiet\nunit: foo.service\n\njournal:noise\nbtrfs:sdb\nunit:bar\n"],
      [exists |-> TRUE, text |-> "smart:sda\n"]>>

\* the disk configurations a run may find; the first is a healthy system's
DiskFiles ==
    <<[kind |-> "list", data |-> <<JsonEntry(JsonStr("/"), JsonNum(80), JsonNum(90))>>],
      [kind |-> "list",
       data |-> <<JsonEntry(JsonStr("/"), JsonNum(80), JsonNum(90)),
                  JsonEntry(JsonStr("/home"), JsonStr("85"), JsonNum(95))>>],
      [kind |-> "list", data |-> <<JsonEntry(JsonStr("/"), JsonNum(95), JsonNum(90))>>],
      [kind |-> "absent"]>>

\* the mountpoints of the disk configurations
MountPaths == {"/", "/home"}

\* what shutil.disk_usage answers on a healthy system
HealthyUsage == [kind |-> "ok", total |-> 1000, free |-> 500]

\* the answers of shutil.disk_usage in a run of main
UsageOutcomes ==
    {HealthyUsage,
     [kind |-> "ok", total |-> 1000, free |-> 50],
     [kind |-> "ok", total |-> 1000, free |-> 150],
     [kind |-> "FileNotFoundError"]}

\* main, lines 22-39: the ignore file and the disk configuration are read; a
\* ValueError of parse_ignore_file is not caught and ends the program
LoadConfig ==
    /\ pc = "start"
    /\ \E i \in 1..Len(IgnoreFiles), d \in 1..Len(DiskFiles) :
         LET n == (IF i = 1 THEN 0 ELSE 1) + (IF d = 1 THEN 0 ELSE 1)
             rules == parse_ignore_file(IgnoreFiles[i], KnownModules)
             loaded == load_mount_thresholds(DiskFiles[d])
         IN  /\ n <= MaxFaults
             /\ faults' = n
             /\ IF rules.ok
                THEN /\ ignore_rules' = rules.value
                     /\ disk_config' =
                            IF loaded.ok
                            THEN [thresholds |-> loaded.value, error |-> ""]
                            ELSE [thresholds |-> <<>>, error |-> loaded.error]
                     /\ pc' = "Units"
                ELSE /\ pc' = "crashed"
                     /\ UNCHANGED <<ignore_rules, disk_config>>
    /\ UNCHANGED <<results, ran, merged, payload, call>>

\* main, line 51, one module of the dict: its check() runs and the result is
\* kept under the module's name; a check that raises ends the program
ModuleChecked(name, checked, answers, n, next) ==
    /\ faults + n <= MaxFaults
    /\ faults' = faults + n
    /\ ran' = ran \o answers
    /\ IF Raised(checked.result)
       THEN pc' = "crashed" /\ results' = results
       ELSE pc' = next /\ results' = Append(results, <<name, checked.result>>)
    /\ UNCHANGED <<ignore_rules, disk_config, merged, payload, call>>

\* the outcomes of the four commands of SystemdModule.check
SystemdEnvs ==
    {[c \in {SystemdCommands[k] : k \in 1..4} |->
         CASE c = SystemdCommands[1] -> e[1] [] c = SystemdCommands[2] -> e[2]
           [] c = SystemdCommands[3] -> e[3] [] OTHER -> e[4]] :
     e \in Outcomes(SystemdCommands[1]) \X Outcomes(SystemdCommands[2])
           \X Outcomes(SystemdCommands[3]) \X Outcomes(SystemdCommands[4])}

\* main, line 51: "Units"
CheckUnits ==
    /\ pc = "Units"
    /\ \E env \in SystemdEnvs :
         /\ faults + Deviations(env) <= MaxFaults
         /\ \E checked \in {SystemdCheck(env, Get(ignore_rules, "unit"))} :
                ModuleChecked("Units", checked, Answers(checked.ran, env),
                              Deviations(env), "Journal")

\* the outcomes of the command of JournalModule.check
JournalEnvs == {[c \in {"journalctl"} |-> r] : r \in Outcomes("journalctl")}

\* main, line 51: "Journal"
CheckJournal ==
    /\ pc = "Journal"
    /\ \E env \in JournalEnvs :
         /\ faults + Deviations(env) <= MaxFaults
         /\ \E checked \in {JournalCheck(env, Get(ignore_rules, "journal"))} :
                ModuleChecked("Journal", checked, Answers(checked.ran, env),
                              Deviations(env), "Btrfs")

\* the commands BtrfsModule.check may run
BtrfsCommands == <<"findmnt", "stat", "btrfs device stats", "btrfs scrub status">>

\* the outcomes of the commands of BtrfsModule.check
BtrfsEnvs ==
    {[c \in {BtrfsCommands[k] : k \in 1..4} |->
         CASE c = BtrfsCommands[1] -> e[1] [] c = BtrfsCommands[2] -> e[2]
           [] c = BtrfsCommands[3] -> e[3] [] OTHER -> e[4]] :
     e \in Outcomes(BtrfsCommands[1]) \X Outcomes(BtrfsCommands[2])
           \X Outcomes(BtrfsCommands[3]) \X Outcomes(BtrfsCommands[4])}

\* main, line 51: "Btrfs"
CheckBtrfs ==
    /\ pc = "Btrfs"
    /\ \E env \in BtrfsEnvs :
         /\ faults + Deviations(env) <= MaxFaults
         /\ \E checked \in {BtrfsCheck(env, Get(ignore_rules, "btrfs"))} :
                /\ Canonical(checked.ran, env)
                /\ ModuleChecked("Btrfs", checked, Answers(checked.ran, env),
                                 Deviations(env), "Disk")

\* the answers of shutil.disk_usage for the mountpoints, keyed by query
UsageEnvs ==
    {[q \in {DiskUsageQuery(p) : p \in MountPaths} |->
         IF q = DiskUsageQuery("/") THEN e[1] ELSE e[2]] :
     e \in UsageOutcomes \X UsageOutcomes}

\* what a healthy system answers to a disk usage query
UsageDeviations(env) == Cardinality({q \in DOMAIN env : env[q] # HealthyUsage})

\* main, line 51: "Disk"
CheckDisk ==
    /\ pc = "Disk"
    /\ \E env \in UsageEnvs :
         /\ faults + UsageDeviations(env) <= MaxFaults
         /\ \E checked \in {DiskCheck(disk_config.thresholds, disk_config.error,
                                       [p \in MountPaths |-> env[DiskUsageQuery(p)]])} :
                /\ \A q \in DOMAIN env :
                       (\A k \in 1..Len(checked.ran) : checked.ran[k] # q)
                           => env[q] = HealthyUsage
                /\ ModuleChecked("Disk", checked, Answers(checked.ran, env),
                                 UsageDeviations(env), "Output")

\* main, lines 53-64: the results are merged and the payload is printed
Output ==
    /\ pc = "Output"
    /\ \E m \in {merge(MainKeys(results))} :
           IF Raised(m)
           THEN pc' = "crashed" /\ UNCHANGED <<merged, payload>>
           ELSE /\ merged' = m
                /\ payload' = Payload(results, m)
                /\ pc' = "done"
    /\ UNCHANGED <<faults, ignore_rules, disk_config, results, ran, call>>

(***************************************************************************)
(* One operation called on its own, from the state before anything ran:    *)
(* call keeps the operation, its arguments and what it returned.           *)
(***************************************************************************)

\* the longest list of severities or of results an operation is called with
MaxLen == 3

\* the operation fn is called with args and returns ret
Called(fn, args, ret) ==
    /\ pc' = "called"
    /\ call' = [fn |-> fn, args |-> args, ret |-> ret]
    /\ UNCHANGED <<faults, ignore_rules, disk_config, results, ran, merged, payload>>

\* all the answers a command is given when an operation is called on its own
AllOutcomes(cmd) == Outcomes(cmd) \cup Oddities(cmd)

\* the lists of severities Status.worst is called with
StatusLists == UNION {[1..k -> Status] : k \in 0..MaxLen}

\* Status.worst(statuses)
CallWorst ==
    /\ pc = "start"
    /\ \E statuses \in StatusLists :
           Called("Status.worst", statuses, worst(statuses))

\* the results merge is called with: no lines, and lines with a blank one
SampleResults ==
    {HealthCheckResult(s, l) : s \in Status, l \in {<<>>, <<"", "b">>}}

\* the mappings merge is called with: k distinct names in order, each with a result
MergeInputs ==
    UNION {{[i \in 1..k |-> <<"m" \o ToString(i), f[i]>>] : f \in [1..k -> SampleResults]} :
              k \in 0..MaxLen}

\* HealthCheckResult.merge(results)
CallMerge ==
    /\ pc = "start"
    /\ \E named \in MergeInputs :
           Called("HealthCheckResult.merge", named, merge(named))

\* MountThreshold(path, warn_percent, critical_percent)
CallMountThreshold ==
    /\ pc = "start"
    /\ \E path \in {"", "/"}, warn_percent \in {-1, 0, 50, 100, 101},
          critical_percent \in {-1, 0, 50, 100, 101} :
           Called("MountThreshold",
                  [path |-> path, warn_percent |-> warn_percent,
                   critical_percent |-> critical_percent],
                  MountThreshold(path, warn_percent, critical_percent))

\* the thresholds DiskModule is built with, as MountThreshold makes them
ThresholdSamples ==
    {MountThreshold("/", t[1], t[2]).value : t \in {<<80, 90>>, <<29, 29>>, <<7, 90>>}}

\* the answers of shutil.disk_usage DiskModule.check is called with
UsageSamples ==
    {[kind |-> "ok", total |-> t[1], free |-> t[2]] :
         t \in {<<1000, 500>>, <<1000, 50>>, <<1000, 100>>, <<1000, 200>>, <<1000, 201>>, <<100, 71>>,
                <<100, 93>>, <<100, 94>>, <<0, 0>>}}
    \cup {[kind |-> "FileNotFoundError"], [kind |-> "PermissionError"],
          [kind |-> "OSError", error |-> "[Errno 5] Input/output error: '/'"]}

\* the lists of mountpoints DiskModule is built with
MountLists ==
    {<<>>} \cup {<<t>> : t \in ThresholdSamples}
    \cup {<<t, MountThreshold("/home", 80, 90).value>> : t \in ThresholdSamples}

\* DiskModule(mount_thresholds, config_error).check()
CallDiskCheck ==
    /\ pc = "start"
    /\ \E mount_thresholds \in MountLists, config_error \in {"", "invalid JSON"},
          u \in UsageSamples, v \in UsageOutcomes :
           /\ Len(mount_thresholds) < 2 => v = HealthyUsage
           /\ (mount_thresholds = <<>> \/ config_error # "") => u = HealthyUsage
           /\ config_error # "" => Len(mount_thresholds) < 2
           /\ \E usage \in {[p \in MountPaths |-> IF p = "/" THEN u ELSE v]} :
               Called("DiskModule.check",
                      [mount_thresholds |-> mount_thresholds, config_error |-> config_error,
                       usage |-> usage],
                      DiskCheck(mount_thresholds, config_error, usage))

\* SystemdModule._state_result(user)
CallStateResult ==
    /\ pc = "start"
    /\ \E user \in BOOLEAN, r \in AllOutcomes("systemctl is-system-running") :
           Called("SystemdModule._state_result", [user |-> user, r |-> r],
                  StateResult(user, r))

\* the ignore rules the operations are called with
PatternSamples ==
    {<<>>, <<"foo">>, <<"noise", "I/O">>, <<"sdb">>, <<"garbage", "write_io">>,
     <<"csum">>, <<"nvme">>}

\* SystemdModule._failed_units_result(user)
CallFailedUnitsResult ==
    /\ pc = "start"
    /\ \E user \in BOOLEAN, r \in AllOutcomes("systemctl --failed"),
          patterns \in PatternSamples :
           Called("SystemdModule._failed_units_result",
                  [user |-> user, r |-> r, patterns |-> patterns],
                  FailedUnitsResult(user, r, patterns))

\* a module's check() as an operation called on its own
CheckCalled(fn, env, patterns, checked) ==
    /\ Canonical(checked.ran, env)
    /\ Called(fn, [env |-> env, patterns |-> patterns],
              [result |-> checked.result, ran |-> Answers(checked.ran, env)])

\* SystemdModule.check()
CallSystemdCheck ==
    /\ pc = "start"
    /\ \E env \in SystemdEnvs, patterns \in {<<>>, <<"foo">>} :
           \E checked \in {SystemdCheck(env, patterns)} :
               CheckCalled("SystemdModule.check", env, patterns, checked)

\* JournalModule.check()
CallJournalCheck ==
    /\ pc = "start"
    /\ \E r \in AllOutcomes("journalctl"), patterns \in PatternSamples :
           \E env \in {[c \in {"journalctl"} |-> r]} :
               \E checked \in {JournalCheck(env, patterns)} :
                   CheckCalled("JournalModule.check", env, patterns, checked)

\* BtrfsModule.device_stats()
CallDeviceStats ==
    /\ pc = "start"
    /\ \E r \in AllOutcomes("btrfs device stats"), patterns \in PatternSamples :
           Called("BtrfsModule.device_stats", [r |-> r, patterns |-> patterns],
                  device_stats(r, patterns))

\* BtrfsModule.scrub_status()
CallScrubStatus ==
    /\ pc = "start"
    /\ \E r \in AllOutcomes("btrfs scrub status"), patterns \in PatternSamples :
           Called("BtrfsModule.scrub_status", [r |-> r, patterns |-> patterns],
                  scrub_status(r, patterns))

\* BtrfsModule.check()
CallBtrfsCheck ==
    /\ pc = "start"
    /\ \E e \in AllOutcomes("findmnt") \X AllOutcomes("stat")
                \X Outcomes("btrfs device stats") \X Outcomes("btrfs scrub status"),
          patterns \in {<<>>, <<"sdb">>} :
           \E env \in {[c \in {BtrfsCommands[k] : k \in 1..4} |->
                           CASE c = BtrfsCommands[1] -> e[1] [] c = BtrfsCommands[2] -> e[2]
                             [] c = BtrfsCommands[3] -> e[3] [] OTHER -> e[4]]} :
               \E checked \in {BtrfsCheck(env, patterns)} :
                   CheckCalled("BtrfsModule.check", env, patterns, checked)

\* the texts smartctl -a prints about a device's health
HealthTexts ==
    {"", "SMART overall-health self-assessment test result: PASSED\n",
     "SMART overall-health self-assessment test result: FAILED!\n",
     "=== START OF READ SMART DATA SECTION ===\nSMART Health Status: unknown\n",
     "SMART overall-health self-assessment test result: completed\n"}

\* SmartModule._check_device(device)
CallCheckDevice ==
    /\ pc = "start"
    /\ \E code \in 0..255, out \in HealthTexts, err \in {"", "Read Device Identity failed\n"} :
           \E device \in {[path |-> "/dev/sda", device_type |-> <<"sat">>]} :
               Called("SmartModule._check_device",
                      [device |-> device, r |-> Outcome(code, out, err)],
                      _check_device(device, Outcome(code, out, err)))

\* the devices the scan outputs name
SmartDevices == <<"/dev/sda", "/dev/nvme0", "/dev/sdb">>

\* SmartModule.check()
CallSmartCheck ==
    /\ pc = "start"
    /\ \E e \in AllOutcomes("smartctl --scan-open") \X Outcomes(DeviceCommand(SmartDevices[1]))
                \X Outcomes(DeviceCommand(SmartDevices[2]))
                \X Outcomes(DeviceCommand(SmartDevices[3])),
          patterns \in {<<>>, <<"nvme">>} :
           \E env \in {[c \in {"smartctl --scan-open"}
                              \cup {DeviceCommand(SmartDevices[k]) : k \in 1..3} |->
                           CASE c = "smartctl --scan-open" -> e[1]
                             [] c = DeviceCommand(SmartDevices[1]) -> e[2]
                             [] c = DeviceCommand(SmartDevices[2]) -> e[3]
                             [] OTHER -> e[4]]} :
               \E checked \in {SmartCheck(env, patterns)} :
                   CheckCalled("SmartModule.check", env, patterns, checked)

\* the state before main or any operation has run
Init ==
    /\ pc = "start"
    /\ faults = 0
    /\ ignore_rules = <<>>
    /\ disk_config = [thresholds |-> <<>>, error |-> ""]
    /\ results = <<>>
    /\ ran = <<>>
    /\ merged = [status |-> "", tooltipLines |-> <<>>]
    /\ payload = [text |-> "", tooltip |-> "", class |-> ""]
    /\ call = [fn |-> "", args |-> <<>>, ret |-> <<>>]

Next ==
    \/ LoadConfig
    \/ CheckUnits
    \/ CheckJournal
    \/ CheckBtrfs
    \/ CheckDisk
    \/ Output
    \/ CallWorst
    \/ CallMerge
    \/ CallMountThreshold
    \/ CallDiskCheck
    \/ CallStateResult
    \/ CallFailedUnitsResult
    \/ CallSystemdCheck
    \/ CallJournalCheck
    \/ CallDeviceStats
    \/ CallScrubStatus
    \/ CallBtrfsCheck
    \/ CallCheckDevice
    \/ CallSmartCheck

Spec == Init /\ [][Next]_vars

(***************************************************************************)
(* Properties                                                              *)
(***************************************************************************)

\* C1: HealthCheckResult.merge over a non-empty ordered mapping lays the lines
\* out entry by entry, in the mapping's order: a "<name>:" header, then the
\* entry's lines verbatim, with one blank line before every entry but the
\* first and none before the first. The output has sum(len(lines_i)) + 2n - 1
\* lines; a mapping of one entry gives the header and the entry's lines. An
\* entry's lines may be empty or hold blank lines.
C1_MergeLayout ==
    LET RECURSIVE before(_, _)
        before(blocks, i) ==
            IF i = 1 THEN 0 ELSE before(blocks, i - 1) + Len(blocks[i - 1]) + 2
        Layout(names, blocks, lines) ==
            /\ Len(lines) = before(blocks, Len(blocks) + 1) - 1
            /\ \A i \in 1..Len(blocks) :
                   LET at == before(blocks, i)
                   IN  /\ i > 1 => lines[at] = ""
                       /\ lines[at + 1] = names[i] \o ":"
                       /\ SubSeq(lines, at + 2, at + 1 + Len(blocks[i])) = blocks[i]
            /\ Len(blocks) = 1 => lines = <<names[1] \o ":">> \o blocks[1]
    IN  /\ (call.fn = "HealthCheckResult.merge" /\ call.args # <<>>) =>
               Layout([i \in 1..Len(call.args) |-> call.args[i][1]],
                      [i \in 1..Len(call.args) |-> call.args[i][2].tooltipLines],
                      call.ret.tooltipLines)
        /\ pc = "done" =>
               Layout([i \in 1..Len(results) |-> "# " \o results[i][1]],
                      [i \in 1..Len(results) |-> results[i][2].tooltipLines],
                      merged.tooltipLines)

\* merge was called with three entries, the first without lines, the others
\* with a blank line among theirs: 0 + 2 + 2 + 2 * 3 - 1 lines came out
C1_Witness ==
    /\ call.fn = "HealthCheckResult.merge"
    /\ Len(call.args) = 3
    /\ call.args[1][2].tooltipLines = <<>>
    /\ call.args[2][2].tooltipLines = <<"", "b">>
    /\ call.args[3][2].tooltipLines = <<"", "b">>
    /\ call.ret.tooltipLines = <<"m1:", "", "m2:", "", "b", "", "m3:", "", "b">>

\* C2: Status.worst over a non-empty list of severities returns the greatest
\* under OK < WARN < CRITICAL, the same for every permutation of the list; the
\* severity of a merged Result is the worst of the severities of its inputs.
C2_WorstIsMax ==
    LET rank(s) == CASE s = "OK" -> 0 [] s = "WARN" -> 1 [] s = "CRITICAL" -> 2
        IsMax(s, statuses) ==
            /\ \E i \in 1..Len(statuses) : statuses[i] = s
            /\ \A i \in 1..Len(statuses) : rank(statuses[i]) <= rank(s)
    IN  /\ (call.fn = "Status.worst" /\ call.args # <<>>) =>
               /\ IsMax(call.ret, call.args)
               /\ \A p \in Permutations(1..Len(call.args)) :
                      worst([i \in 1..Len(call.args) |-> call.args[p[i]]]) = call.ret
        /\ (call.fn = "HealthCheckResult.merge" /\ call.args # <<>>) =>
               IsMax(call.ret.status, [i \in 1..Len(call.args) |-> call.args[i][2].status])
        /\ pc = "done" =>
               IsMax(merged.status, [i \in 1..Len(results) |-> results[i][2].status])

\* worst was called with the greatest severity in the middle of the list
C2_Witness ==
    /\ call.fn = "Status.worst"
    /\ call.args = <<"WARN", "CRITICAL", "OK">>
    /\ call.ret = "CRITICAL"

C4_DiskThresholds ==
    LET rank(s) == CASE s = "OK" -> 0 [] s = "WARN" -> 1 [] s = "CRITICAL" -> 2
        Verdict(used_percent, cfg, s) ==
            /\ s = "CRITICAL" <=> FloatGE(used_percent, cfg.critical_percent)
            /\ s = "WARN" <=> /\ FloatGE(used_percent, cfg.warn_percent)
                              /\ ~FloatGE(used_percent, cfg.critical_percent)
            /\ s = "OK" <=> ~FloatGE(used_percent, cfg.warn_percent)
        \* usages whose percentage is a whole number that the floats give exactly
        Exact(u, cfg, s) ==
            /\ (u.total = 1000 /\ u.free = 50 /\ cfg.warn_percent = 80
                /\ cfg.critical_percent = 90) => s = "CRITICAL"
            /\ (u.total = 1000 /\ u.free = 100 /\ cfg.critical_percent = 90)
                   => s = "CRITICAL"
            /\ (u.total = 1000 /\ u.free = 200 /\ cfg.warn_percent = 80
                /\ cfg.critical_percent = 90) => s = "WARN"
            /\ (u.total = 1000 /\ u.free = 201 /\ cfg.warn_percent = 80) => s = "OK"
        Checked(mount_thresholds, usage, mount_statuses, status) ==
            /\ Len(mount_statuses) = Len(mount_thresholds)
            /\ \A i \in 1..Len(mount_thresholds) :
                   LET u == usage[mount_thresholds[i].path]
                   IN  (u.kind = "ok" /\ u.total > 0) =>
                           /\ Verdict(UsedPercent(u), mount_thresholds[i], mount_statuses[i])
                           /\ Exact(u, mount_thresholds[i], mount_statuses[i])
            /\ \E i \in 1..Len(mount_statuses) : mount_statuses[i] = status
            /\ \A i \in 1..Len(mount_statuses) : rank(mount_statuses[i]) <= rank(status)
    IN  (/\ call.fn = "DiskModule.check"
         /\ call.args.config_error = ""
         /\ call.args.mount_thresholds # <<>>)
            => Checked(call.args.mount_thresholds, call.args.usage,
                       call.ret.mount_statuses, call.ret.result.status)

\* DiskModule.check was called for two mountpoints, the first used to exactly
\* its critical threshold (90.0 of 90) and the second healthy
C4_Witness ==
    /\ call.fn = "DiskModule.check"
    /\ call.args.config_error = ""
    /\ Len(call.args.mount_thresholds) = 2
    /\ call.args.mount_thresholds[1].critical_percent = 90
    /\ call.args.usage["/"] = [kind |-> "ok", total |-> 1000, free |-> 100]
    /\ call.ret.mount_statuses = <<"CRITICAL", "OK">>
    /\ call.ret.result.status = "CRITICAL"

\* C5: constructing a MountThreshold fails, and makes no object, whenever the
\* path is empty, or warn_percent or critical_percent lies outside [0, 100], or
\* warn_percent > critical_percent; so every MountThreshold that exists has a
\* path that is not empty and 0 <= warn_percent <= critical_percent <= 100.
C5_MountThresholdValid ==
    LET Valid(t) ==
            /\ t.path # ""
            /\ 0 <= t.warn_percent
            /\ t.warn_percent <= t.critical_percent
            /\ t.critical_percent <= 100
    IN  /\ call.fn = "MountThreshold" =>
               /\ ~Valid(call.args) => (~call.ret.ok /\ DOMAIN call.ret = {"ok", "error"})
               /\ call.ret.ok => (Valid(call.ret.value) /\ call.ret.value = call.args)
        /\ \A i \in 1..Len(disk_config.thresholds) : Valid(disk_config.thresholds[i])
        /\ call.fn = "DiskModule.check" =>
               \A i \in 1..Len(call.args.mount_thresholds) :
                   Valid(call.args.mount_thresholds[i])

\* MountThreshold was called with both percentages in range and warn above
\* critical: it raised
C5_Witness ==
    /\ call.fn = "MountThreshold"
    /\ call.args = [path |-> "/", warn_percent |-> 100, critical_percent |-> 50]
    /\ ~call.ret.ok
    /\ call.ret.error = "/: warn threshold cannot exceed critical threshold"

\* C6: in the btrfs device-stats sub-check with exit code 0, only the lines
\* that are not blank and match no ignore pattern are considered: the verdict
\* is CRITICAL iff one of them parses as "[<device>].<metric> <integer>" with
\* an integer that is not zero, else WARN iff one of them does not parse, else
\* OK; the number reported as "non-zero counters" is the count of the
\* considered lines with a nonzero integer. A line that matches an ignore
\* pattern has no effect: the Result is the Result for the same output with
\* that line deleted.
C6_DeviceStatsVerdict ==
    LET Considered(lns, patterns) ==
            {i \in 1..Len(lns) :
                /\ Strip(lns[i]) # ""
                /\ \A k \in 1..Len(patterns) : ~Contains(Strip(lns[i]), patterns[k])}
        Ignored(lns, patterns) ==
            {i \in 1..Len(lns) :
                \E k \in 1..Len(patterns) : Contains(Strip(lns[i]), patterns[k])}
        Parses(ln) == DeviceStatsMatches(Strip(ln)) # {}
        Without(lns, i) == SubSeq(lns, 1, i - 1) \o SubSeq(lns, i + 1, Len(lns))
        Judged(lns, patterns, considered, ret) ==
            LET nonzero == {i \in considered :
                               Parses(lns[i]) /\ DeviceStatsValue(Strip(lns[i])) # 0}
                unparsed == {i \in considered : ~Parses(lns[i])}
            IN  /\ ret.status = "CRITICAL" <=> nonzero # {}
                /\ ret.status = "WARN" <=> (nonzero = {} /\ unparsed # {})
                /\ ret.status = "OK" <=> (nonzero = {} /\ unparsed = {})
                /\ ret.tooltipLines[1]
                       = "non-zero counters: " \o ToString(Cardinality(nonzero))
                /\ \A i \in Ignored(lns, patterns) :
                       device_stats(Outcome(0, Join("\n", Without(lns, i)), ""), patterns)
                           = ret
    IN  (call.fn = "BtrfsModule.device_stats" /\ call.args.r.code = 0) =>
            Judged(SplitLines(call.args.r.out), call.args.patterns,
                   Considered(SplitLines(call.args.r.out), call.args.patterns), call.ret)

\* device_stats read two nonzero counters of which the rule "sdb" ignores
\* one: it counted the other one only
C6_Witness ==
    /\ call.fn = "BtrfsModule.device_stats"
    /\ call.args.patterns = <<"sdb">>
    /\ call.args.r = Outcome(0, "[/dev/sda].write_io_errs    3\n[/dev/sdb].read_io_errs     1\n", "")
    /\ call.ret = HealthCheckResult(
                      "CRITICAL", <<"non-zero counters: 1", "  [/dev/sda].write_io_errs    3">>)

\* C7: in the SMART check of one device, for every exit code in 0..255 but
\* 127, each of the 8 bits that is set adds exactly one (severity, message)
\* pair, whatever the other bits are (1, 2, 4, 128: WARN; 8, 16, 32, 64:
\* CRITICAL), so there are as many messages as bits set; the verdict is the
\* worst of those severities (OK when no bit is set) and of the severity of
\* the health line when there is one (fail/fault/corrupt: CRITICAL, else
\* unknown, n/a, not supported: WARN, else pass/ok/good: OK, else WARN). Exit
\* code 9 gives one WARN and one CRITICAL message and the verdict CRITICAL; a
\* health line "PASSED" never lowers a verdict that an exit bit raised.
C7_SmartExitBits ==
    LET rank(s) == CASE s = "OK" -> 0 [] s = "WARN" -> 1 [] s = "CRITICAL" -> 2
        Max(a, b) == IF a >= b THEN a ELSE b
        Set(code) == {k \in 0..7 : (code \div (2 ^ k)) % 2 = 1}
        WarnBits == {0, 1, 2, 7}
        CritBits == {3, 4, 5, 6}
        Count(lines, prefix) ==
            Cardinality({i \in 1..Len(lines) : StartsWith(lines[i], prefix)})
        Has(line, keywords) == \E w \in keywords : Contains(Lower(line), w)
        HealthRank(line) ==
            IF line = "" THEN 0
            ELSE IF Has(line, {"fail", "fault", "corrupt"}) THEN 2
            ELSE IF Has(line, {"unknown", "n/a", "not supported"}) THEN 1
            ELSE IF Has(line, {"pass", "ok", "good"}) THEN 0
            ELSE 1
        BitsRank(set) ==
            IF set \cap CritBits # {} THEN 2 ELSE IF set \cap WarnBits # {} THEN 1 ELSE 0
        Judged(code, set, health_line, ret) ==
            /\ Count(ret.lines, "  - (") = Cardinality(set)
            /\ Count(ret.lines, "  - (warn) ") = Cardinality(set \cap WarnBits)
            /\ Count(ret.lines, "  - (crit) ") = Cardinality(set \cap CritBits)
            /\ \A k \in set :
                   \E i \in 1..Len(ret.lines) :
                       ret.lines[i] = "  - ("
                                      \o (IF k \in WarnBits THEN "warn" ELSE "crit")
                                      \o ") " \o SMARTCTL_EXIT_BITS[k + 1][3]
            /\ rank(ret.status) = Max(BitsRank(set), HealthRank(health_line))
            /\ rank(ret.status) >= BitsRank(set)
            /\ code = 9 => ret.status = "CRITICAL"
    IN  (call.fn = "SmartModule._check_device" /\ call.args.r.code # 127) =>
            Judged(call.args.r.code, Set(call.args.r.code),
                   IF _extract_health_line(call.args.r.out) # ""
                   THEN _extract_health_line(call.args.r.out)
                   ELSE _extract_health_line(call.args.r.err),
                   call.ret)

\* smartctl exited with 9 and printed a health line "PASSED": one message of
\* each severity, and the verdict CRITICAL
C7_Witness ==
    /\ call.fn = "SmartModule._check_device"
    /\ call.args.r.code = 9
    /\ call.args.r.out = "SMART overall-health self-assessment test result: PASSED\n"
    /\ call.args.r.err = ""
    /\ call.ret.status = "CRITICAL"
    /\ call.ret.lines =
           <<"[" \o BallotX
             \o "] /dev/sda: SMART overall-health self-assessment test result: PASSED",
             "  - (warn) smartctl: command line did not parse",
             "  - (crit) SMART overall-health self-assessment reported failure">>

\* C8: main invokes check() exactly once on each of the five modules (service
\* manager, log, filesystem, disk capacity, SMART), one after another, and the
\* merged Result holds exactly one header block per module in the order of
\* invocation, so that the verdict of any of the five, SMART too, is reflected
\* in the severity of the output.
C8_FiveModulesInvoked ==
    pc = "done" =>
        /\ Len(results) = 5
        /\ Cardinality({i \in 1..Len(merged.tooltipLines) :
                           StartsWith(merged.tooltipLines[i], "# ")}) = 5
        /\ Cardinality({k \in 1..Len(ran) : ran[k][1] = "smartctl --scan-open"}) = 1

\* C9: in the payload, class is the lowercase name of the worst severity of
\* the modules' results; text is the OK glyph iff every module's result is OK,
\* and otherwise lists "<module>:<severity>" for exactly the modules whose
\* severity is not OK, in the modules' order, no OK module among them. Units
\* WARN, Btrfs CRITICAL, Disk OK gives class "critical" and a text that names
\* Units and Btrfs only.
C9_PayloadClassAndText ==
    LET rank(s) == CASE s = "OK" -> 0 [] s = "WARN" -> 1 [] s = "CRITICAL" -> 2
        lowercase(s) ==
            CASE s = "OK" -> "ok" [] s = "WARN" -> "warn" [] s = "CRITICAL" -> "critical"
        status(i) == results[i][2].status
        Worst(s) ==
            /\ \E i \in 1..Len(results) : status(i) = s
            /\ \A i \in 1..Len(results) : rank(status(i)) <= rank(s)
        RECURSIVE Listed(_)
        Listed(i) ==
            IF i > Len(results) THEN ""
            ELSE IF status(i) = "OK" THEN Listed(i + 1)
            ELSE " " \o results[i][1] \o ":" \o lowercase(status(i)) \o Listed(i + 1)
    IN  pc = "done" =>
            /\ \E s \in {"OK", "WARN", "CRITICAL"} : Worst(s) /\ payload.class = lowercase(s)
            /\ payload.text = CheckMark <=> \A i \in 1..Len(results) : status(i) = "OK"
            /\ payload.text # CheckMark => payload.text = WarningSign \o Listed(1)
            /\ \A i \in 1..Len(results) :
                   Contains(payload.text, results[i][1] \o ":") <=> status(i) # "OK"

\* main ended with Units WARN, Journal OK, Btrfs CRITICAL and Disk OK
C9_Witness ==
    /\ pc = "done"
    /\ [i \in 1..Len(results) |-> <<results[i][1], results[i][2].status>>]
           = << <<"Units", "WARN">>, <<"Journal", "OK">>, <<"Btrfs", "CRITICAL">>,
                <<"Disk", "OK">> >>
    /\ payload.class = "critical"
    /\ payload.text = WarningSign \o " Units:warn Btrfs:critical"

\* C10: whenever a command that a check runs exits with code 127, the result
\* derived from that invocation is WARN, never OK and never CRITICAL, whatever
\* was captured of its output and whatever the ignore rules are; and so for
\* every command a module runs: the systemctl state and failed-units queries,
\* journalctl, the root filesystem type queries, btrfs device stats and scrub
\* status, the smartctl scan and the smartctl query of one device.
C10_MissingToolWarns ==
    LET Missing(answers, cmd) ==
            \E k \in 1..Len(answers) : answers[k][1] = cmd /\ answers[k][2].code = 127
    IN  /\ (call.fn \in {"SystemdModule._state_result", "SystemdModule._failed_units_result",
                         "BtrfsModule.device_stats", "BtrfsModule.scrub_status"}
            /\ call.args.r.code = 127) => call.ret.status = "WARN"
        /\ (call.fn = "SmartModule._check_device" /\ call.args.r.code = 127)
               => call.ret.status = "WARN"
        /\ (call.fn = "JournalModule.check" /\ Missing(call.ret.ran, "journalctl"))
               => call.ret.result.status = "WARN"
        /\ (call.fn = "SmartModule.check" /\ Missing(call.ret.ran, "smartctl --scan-open"))
               => call.ret.result.status = "WARN"
        /\ (call.fn = "BtrfsModule.check"
            /\ (Missing(call.ret.ran, "findmnt") \/ Missing(call.ret.ran, "stat")))
               => call.ret.result.status = "WARN"

\* C10, amended: as C10 for every command but the first query of the root
\* filesystem type (findmnt). When findmnt exits with 127 the second query
\* (stat) decides: the result is WARN unless stat exits with 0 and names btrfs,
\* and is then the merge of the two btrfs sub-checks, of any severity.
C10_MissingToolWarnsButFindmnt ==
    LET Missing(answers, cmd) ==
            \E k \in 1..Len(answers) : answers[k][1] = cmd /\ answers[k][2].code = 127
        Btrfs(r) == r.code = 0 /\ Strip(r.out) = "btrfs"
    IN  /\ (call.fn \in {"SystemdModule._state_result", "SystemdModule._failed_units_result",
                         "BtrfsModule.device_stats", "BtrfsModule.scrub_status"}
            /\ call.args.r.code = 127) => call.ret.status = "WARN"
        /\ (call.fn = "SmartModule._check_device" /\ call.args.r.code = 127)
               => call.ret.status = "WARN"
        /\ (call.fn = "JournalModule.check" /\ Missing(call.ret.ran, "journalctl"))
               => call.ret.result.status = "WARN"
        /\ (call.fn = "SmartModule.check" /\ Missing(call.ret.ran, "smartctl --scan-open"))
               => call.ret.result.status = "WARN"
        /\ (call.fn = "BtrfsModule.check" /\ Missing(call.ret.ran, "stat"))
               => call.ret.result.status = "WARN"
        /\ (call.fn = "BtrfsModule.check" /\ Missing(call.ret.ran, "findmnt")) =>
               IF Btrfs(call.args.env["stat"])
               THEN call.ret.result =
                        merge(<< <<"## Device stats",
                                   device_stats(call.args.env["btrfs device stats"],
                                                call.args.patterns)>>,
                                 <<"## Scrub",
                                   scrub_status(call.args.env["btrfs scrub status"],
                                                call.args.patterns)>> >>)
               ELSE call.ret.result.status = "WARN"

\* findmnt and stat were both missing: BtrfsModule.check ran the two and
\* returned WARN for a root of unknown type
C10_Witness ==
    /\ call.fn = "BtrfsModule.check"
    /\ Len(call.ret.ran) = 2
    /\ call.ret.ran[1] = <<"findmnt", NotFound("findmnt")>>
    /\ call.ret.ran[2] = <<"stat", NotFound("stat")>>
    /\ call.ret.result =
           HealthCheckResult("WARN", <<"(root is 'unknown', not btrfs. check your config)">>)

\* C11: in the systemd state sub-check with an exit code other than 127,
\* where state is the first line of stdout, else of stderr, else "unknown":
\* the verdict is CRITICAL iff state is degraded, maintenance or failed,
\* whatever the exit code; otherwise WARN if state is starting or unknown or
\* the exit code is not zero, positive or negative; and OK only when the exit
\* code is zero and the state is none of those five words.
C11_StateVerdict ==
    LET State(r) ==
            LET text == IF Strip(r.out) # "" THEN Strip(r.out)
                        ELSE IF Strip(r.err) # "" THEN Strip(r.err) ELSE "unknown"
            IN  Strip(SplitLines(text)[1])
        Judged(code, state, status) ==
            /\ status = "CRITICAL" <=> state \in {"degraded", "maintenance", "failed"}
            /\ status = "WARN" <=> /\ state \notin {"degraded", "maintenance", "failed"}
                                   /\ (state \in {"starting", "unknown"} \/ code # 0)
            /\ status = "OK" <=> /\ code = 0
                                 /\ state \notin {"degraded", "maintenance", "failed",
                                                  "starting", "unknown"}
    IN  (call.fn = "SystemdModule._state_result" /\ call.args.r.code # 127) =>
            Judged(call.args.r.code, State(call.args.r), call.ret.status)

\* C12: in the btrfs module the type of the root filesystem is taken from the
\* mount-info query (findmnt) if it exits with 0 and output that is not blank,
\* else from the statfs-type query (stat) under the same condition, else it
\* is "unknown". When the type is not "btrfs", check() returns WARN with
\* exactly one line and runs neither the device-stats nor the scrub-status
\* command; when it is "btrfs" both are run, device stats before scrub, and
\* the result is their merge under the two labels in that order.
C12_BtrfsOrder ==
    LET Good(r) == r.code = 0 /\ Strip(r.out) # ""
        Typed(answers, patterns, result, fstype, n) ==
            IF fstype # "btrfs"
            THEN /\ Len(answers) = n
                 /\ result = [status |-> "WARN",
                              tooltipLines |-> <<"(root is '" \o fstype
                                                 \o "', not btrfs. check your config)">>]
            ELSE /\ Len(answers) = n + 2
                 /\ answers[n + 1][1] = "btrfs device stats"
                 /\ answers[n + 2][1] = "btrfs scrub status"
                 /\ result = merge(<< <<"## Device stats",
                                        device_stats(answers[n + 1][2], patterns)>>,
                                      <<"## Scrub",
                                        scrub_status(answers[n + 2][2], patterns)>> >>)
                 /\ result.tooltipLines[1] = "## Device stats:"
                 /\ \E i \in 2..Len(result.tooltipLines) :
                        /\ result.tooltipLines[i] = "## Scrub:"
                        /\ result.tooltipLines[i - 1] = ""
        Checked(answers, patterns, result) ==
            /\ answers # <<>>
            /\ answers[1][1] = "findmnt"
            /\ IF Good(answers[1][2])
               THEN Typed(answers, patterns, result, Strip(answers[1][2].out), 1)
               ELSE /\ Len(answers) >= 2
                    /\ answers[2][1] = "stat"
                    /\ Typed(answers, patterns, result,
                             IF Good(answers[2][2]) THEN Strip(answers[2][2].out)
                             ELSE "unknown",
                             2)
    IN  /\ call.fn = "BtrfsModule.check" =>
               /\ Checked(call.ret.ran, call.args.patterns, call.ret.result)
               /\ \A k \in 1..Len(call.ret.ran) :
                      call.ret.ran[k][2] = call.args.env[call.ret.ran[k][1]]
        /\ \A i \in 1..Len(results) :
               results[i][1] = "Btrfs" =>
                   Checked(SelectSeq(ran, LAMBDA a : a[1] \in {"findmnt", "stat",
                                                               "btrfs device stats",
                                                               "btrfs scrub status"}),
                           IF "btrfs" \in DOMAIN ignore_rules THEN ignore_rules["btrfs"]
                           ELSE <<>>,
                           results[i][2])

\* findmnt failed and stat named btrfs: check() ran the four commands in order
C12_Witness ==
    /\ call.fn = "BtrfsModule.check"
    /\ call.args.env["findmnt"] = Outcome(1, "", "")
    /\ [k \in 1..Len(call.ret.ran) |-> call.ret.ran[k][1]]
           = <<"findmnt", "stat", "btrfs device stats", "btrfs scrub status">>
    /\ call.ret.result.tooltipLines[1] = "## Device stats:"

\* C13: in the journal module, when the exit code is not 127 and it is not
\* the case that the exit code is nonzero with blank stdout, let n be the
\* number of stdout lines that are not blank and match no ignore pattern:
\* n = 0 gives OK with the single line "No errors found in journal"; n > 0
\* gives CRITICAL, reporting the count n and the last min(n, 15) surviving
\* lines in their original order, followed by a "+N more" line with
\* N = n - 15 exactly when n > 15. A nonzero exit code with stdout that is
\* not blank is classified by n alone.
C13_JournalCount ==
    LET Survives(ln, patterns) ==
            /\ Strip(ln) # ""
            /\ \A k \in 1..Len(patterns) : ~Contains(ln, patterns[k])
        Min(a, b) == IF a <= b THEN a ELSE b
        Reported(surviving, n, m, result) ==
            IF n = 0
            THEN result = [status |-> "OK",
                           tooltipLines |-> <<"No errors found in journal">>]
            ELSE /\ result.status = "CRITICAL"
                 /\ Len(result.tooltipLines) = 3 + m + (IF n > 15 THEN 1 ELSE 0)
                 /\ result.tooltipLines[1] = "Journal errors (err..emerg): " \o ToString(n)
                 /\ \A k \in 1..m :
                        result.tooltipLines[3 + k] = "  " \o surviving[n - m + k]
                 /\ n > 15 => result.tooltipLines[4 + m]
                                  = "  " \o Ellipsis \o " (+" \o ToString(n - 15) \o " more)"
        Counted(surviving, result) ==
            Reported(surviving, Len(surviving), Min(Len(surviving), 15), result)
        Checked(r, patterns, result) ==
            (r.code # 127 /\ ~(r.code # 0 /\ Strip(r.out) = "")) =>
                Counted(SelectSeq(SplitLines(r.out), LAMBDA ln : Survives(ln, patterns)),
                        result)
    IN  /\ call.fn = "JournalModule.check" =>
               Checked(call.args.env["journalctl"], call.args.patterns, call.ret.result)
        /\ \A i \in 1..Len(results) :
               results[i][1] = "Journal" =>
                   \A k \in 1..Len(ran) :
                       ran[k][1] = "journalctl" =>
                           Checked(ran[k][2],
                                   IF "journal" \in DOMAIN ignore_rules
                                   THEN ignore_rules["journal"] ELSE <<>>,
                                   results[i][2])

\* journalctl printed MaxJournalLines entries and none is ignored: the last 15
\* are shown, oldest first, and the others are counted as more
C13_Witness ==
    /\ call.fn = "JournalModule.check"
    /\ call.args.patterns = <<>>
    /\ call.args.env["journalctl"] = Outcome(0, LongJournal, "")
    /\ call.ret.result.status = "CRITICAL"
    /\ Len(call.ret.result.tooltipLines) = 19
    /\ call.ret.result.tooltipLines[1]
           = "Journal errors (err..emerg): " \o ToString(MaxJournalLines)
    /\ call.ret.result.tooltipLines[19]
           = "  " \o Ellipsis \o " (+" \o ToString(MaxJournalLines - 15) \o " more)"

\* C14: in the btrfs scrub sub-check with exit code 0, the mapping of error
\* types to counts is built from the lines that are not blank and not
\* ignored, in order, from the first "<word>_error(s)?: <integer>" match of
\* each line, a later line overwriting an earlier one for the same key. The
\* verdict is CRITICAL iff the sum of the final counts is > 0, WARN iff the
\* mapping is empty, OK otherwise: an earlier nonzero count overwritten by a
\* later zero for the same key does not give CRITICAL. The detail lists
\* exactly the keys whose final count is not zero, sorted by name.
C14_ScrubMapping ==
    LET Kept(out, patterns) ==
            SelectSeq([i \in 1..Len(SplitLines(out)) |-> RStrip(SplitLines(out)[i])],
                      LAMBDA ln : /\ Strip(ln) # ""
                                  /\ \A k \in 1..Len(patterns) : ~Contains(ln, patterns[k]))
        Key(ln) == SubSeq(ln, ScrubMatch(ln)[1], ScrubMatch(ln)[3])
        Count(ln) == ParseInt(SubSeq(ln, ScrubMatch(ln)[4], ScrubMatch(ln)[5]))
        RECURSIVE Sum(_, _)
        Sum(final, keys) ==
            IF keys = {} THEN 0
            ELSE LET t == CHOOSE t \in keys : TRUE
                 IN  final[t] + Sum(final, keys \ {t})
        Detailed(final, shown, total, ret) ==
            /\ ret.status = "CRITICAL" <=> total > 0
            /\ ret.status = "WARN" <=> DOMAIN final = {}
            /\ ret.status = "OK" <=> (DOMAIN final # {} /\ total = 0)
            /\ IF DOMAIN final = {}
               THEN ret.tooltipLines = <<"unable to parse scrub output">>
               ELSE /\ ret.tooltipLines[1] = "scrub errors: " \o ToString(total)
                    /\ Len(ret.tooltipLines) = 1 + Cardinality(shown)
                    /\ \A t \in shown :
                           \E k \in 2..Len(ret.tooltipLines) :
                               /\ ret.tooltipLines[k]
                                      = " - " \o t \o ": " \o ToString(final[t])
                               /\ k - 1 = Cardinality({u \in shown : StrLess(u, t)}) + 1
        Mapped(lns, matched, ret) ==
            LET final == [t \in {Key(lns[i]) : i \in matched} |->
                             Count(lns[CHOOSE i \in matched :
                                           /\ Key(lns[i]) = t
                                           /\ \A j \in matched :
                                                  Key(lns[j]) = t => j <= i])]
            IN  Detailed(final, {t \in DOMAIN final : final[t] > 0},
                         Sum(final, DOMAIN final), ret)
        Scanned(lns, ret) ==
            Mapped(lns, {i \in 1..Len(lns) : ScrubMatches(lns[i]) # {}}, ret)
    IN  (call.fn = "BtrfsModule.scrub_status" /\ call.args.r.code = 0) =>
            Scanned(Kept(call.args.r.out, call.args.patterns), call.ret)

\* the scrub output names csum_errors twice, first with 2 and then with 0:
\* the later count stands and the verdict is OK
C14_Witness ==
    /\ call.fn = "BtrfsModule.scrub_status"
    /\ call.args.patterns = <<>>
    /\ call.args.r = Outcome(0, "csum_errors: 2\ncsum_errors: 0\n", "")
    /\ call.ret = [status |-> "OK", tooltipLines |-> <<"scrub errors: 0">>]

\* C15: ignore rules only suppress. For every module and every fixed set of
\* command outcomes, adding an ignore pattern to the module's rules never
\* makes the module's severity worse than it was without the pattern: a rule
\* can turn CRITICAL or WARN into something milder, never OK into WARN or
\* CRITICAL.
C15_IgnoreOnlySuppresses ==
    LET rank(s) == CASE s = "OK" -> 0 [] s = "WARN" -> 1 [] s = "CRITICAL" -> 2
        Added == {"foo", "noise", "I/O", "sd", "/dev", "nvme", "garbage", "errors",
                  "csum", ": 0"}
        NotWorse(with, without) == rank(with.status) <= rank(without.status)
    IN  \A p \in Added :
            /\ call.fn = "SystemdModule._failed_units_result" =>
                   NotWorse(FailedUnitsResult(call.args.user, call.args.r,
                                              Append(call.args.patterns, p)),
                            call.ret)
            /\ call.fn = "SystemdModule.check" =>
                   NotWorse(SystemdCheck(call.args.env,
                                         Append(call.args.patterns, p)).result,
                            call.ret.result)
            /\ call.fn = "JournalModule.check" =>
                   NotWorse(JournalCheck(call.args.env,
                                         Append(call.args.patterns, p)).result,
                            call.ret.result)
            /\ call.fn = "BtrfsModule.device_stats" =>
                   NotWorse(device_stats(call.args.r, Append(call.args.patterns, p)),
                            call.ret)
            /\ call.fn = "BtrfsModule.scrub_status" =>
                   NotWorse(scrub_status(call.args.r, Append(call.args.patterns, p)),
                            call.ret)
            /\ call.fn = "BtrfsModule.check" =>
                   NotWorse(BtrfsCheck(call.args.env,
                                       Append(call.args.patterns, p)).result,
                            call.ret.result)
            /\ call.fn = "SmartModule.check" =>
                   NotWorse(SmartCheck(call.args.env,
                                       Append(call.args.patterns, p)).result,
                            call.ret.result)

\* C15, amended: adding an ignore pattern never makes the severity worse in
\* the systemd module, the journal module and the btrfs device-stats
\* sub-check. In the btrfs scrub sub-check (and so in the btrfs module) this
\* holds when the pattern matches no line that holds an error count, and in
\* the SMART module when a device is left after the pattern is applied.
C15_IgnoreSuppressesWhereSomethingRemains ==
    LET rank(s) == CASE s = "OK" -> 0 [] s = "WARN" -> 1 [] s = "CRITICAL" -> 2
        Added == {"foo", "noise", "I/O", "sd", "/dev", "nvme", "garbage", "errors",
                  "csum", ": 0"}
        NotWorse(with, without) == rank(with.status) <= rank(without.status)
        \* p matches no line of the scrub output that holds an error count
        SparesCounts(r, p) ==
            \A i \in 1..Len(SplitLines(r.out)) :
                ScrubMatches(RStrip(SplitLines(r.out)[i])) # {}
                    => ~Contains(RStrip(SplitLines(r.out)[i]), p)
        \* a device of the scan is ignored neither by patterns nor by p
        LeavesDevice(r, patterns, p) ==
            \E i \in 1..Len(parse_scan_output(r.out)) :
                /\ ~Contains(parse_scan_output(r.out)[i].path, p)
                /\ \A k \in 1..Len(patterns) :
                       ~Contains(parse_scan_output(r.out)[i].path, patterns[k])
    IN  \A p \in Added :
            /\ call.fn = "SystemdModule._failed_units_result" =>
                   NotWorse(FailedUnitsResult(call.args.user, call.args.r,
                                              Append(call.args.patterns, p)),
                            call.ret)
            /\ call.fn = "SystemdModule.check" =>
                   NotWorse(SystemdCheck(call.args.env,
                                         Append(call.args.patterns, p)).result,
                            call.ret.result)
            /\ call.fn = "JournalModule.check" =>
                   NotWorse(JournalCheck(call.args.env,
                                         Append(call.args.patterns, p)).result,
                            call.ret.result)
            /\ call.fn = "BtrfsModule.device_stats" =>
                   NotWorse(device_stats(call.args.r, Append(call.args.patterns, p)),
                            call.ret)
            /\ (call.fn = "BtrfsModule.scrub_status" /\ SparesCounts(call.args.r, p)) =>
                   scrub_status(call.args.r, Append(call.args.patterns, p)) = call.ret
            /\ (call.fn = "BtrfsModule.check"
                /\ SparesCounts(call.args.env["btrfs scrub status"], p)) =>
                   NotWorse(BtrfsCheck(call.args.env,
                                       Append(call.args.patterns, p)).result,
                            call.ret.result)
            /\ (call.fn = "SmartModule.check"
                /\ LeavesDevice(call.args.env["smartctl --scan-open"],
                                call.args.patterns, p)) =>
                   NotWorse(SmartCheck(call.args.env,
                                       Append(call.args.patterns, p)).result,
                            call.ret.result)

\* the journal holds an entry that no rule ignores, which is CRITICAL; with
\* the pattern "I/O" added every entry is ignored and the severity is OK
C15_Witness ==
    /\ call.fn = "JournalModule.check"
    /\ call.args.patterns = <<"foo">>
    /\ call.args.env["journalctl"]
           = Outcome(0, "kernel: I/O error, dev sda\n\nfoo.service: noise\n", "")
    /\ call.ret.result.status = "CRITICAL"
    /\ JournalCheck(call.args.env, <<"foo", "I/O">>).result.status = "OK"
====
